---- MODULE Spec2Model ----
(***************************************************************************)
(* A model of the agent of squirke1/agentic-ai-minimal-agent:              *)
(*   - the planner/executor loop            (src/main.py, run_agent)       *)
(*   - the tool registry and its dispatch   (src/tools.py)                 *)
(*   - the long-term vector memory          (src/long_term_memory.py)      *)
(*                                                                         *)
(* Numbers that are floats in the program (importance, similarity,         *)
(* threshold) are integers in hundredths here: 0.7 is 70, 0.95 is 95.      *)
(***************************************************************************)
EXTENDS Integers, Sequences, FiniteSets, TLC

(***************************************************************************)
(* Program constants.                                                      *)
(***************************************************************************)
\* src/main.py:26
MAX_STEPS == 6
\* src/main.py:162, importance of the record of a completed task (0.7)
IMPORTANCE_SUCCESS == 70
\* src/main.py:181, importance of the record of an incomplete task (0.3)
IMPORTANCE_INCOMPLETE == 30
\* src/main.py:65, min_importance of the initial memory search (0.6)
MIN_IMPORTANCE == 60
\* src/main.py:65, n_results of the initial memory search
SEARCH_N_RESULTS == 3
\* src/main.py:79, number of memories injected into the context
CONTEXT_TOP == 2
\* src/long_term_memory.py:108 and :318, the default importance (0.5)
DEFAULT_IMPORTANCE == 50

SYSTEM_PROMPT == "You are an autonomous but careful AI agent"
FALLBACK_SENTENCE == "I wasn't able to complete that request."

(***************************************************************************)
(* Python values, as far as the program looks at them: every value is a    *)
(* record of one shape, so that values of different Python types can be    *)
(* compared.  t is the Python type, s the text of a str, n the number of   *)
(* an int/float (floats in hundredths) or of a bool.                       *)
(***************************************************************************)
VStr(s) == [t |-> "str", s |-> s, n |-> 0]
VNum(n) == [t |-> "num", s |-> "", n |-> n]
VBool(b) == [t |-> "bool", s |-> "", n |-> IF b THEN 1 ELSE 0]
VNone == [t |-> "None", s |-> "", n |-> 0]
VList(n) == [t |-> "list", s |-> "", n |-> n]
\* The empty mapping as a value.
VDict == [t |-> "dict", s |-> "", n |-> 0]

\* The empty mapping {}.
EmptyDict == [k \in {} |-> VNone]

\* Python truthiness of a value (`if x:`).
Truthy(v) ==
    CASE v.t = "str" -> v.s # ""
      [] v.t = "num" -> v.n # 0
      [] v.t = "bool" -> v.n = 1
      [] v.t = "None" -> FALSE
      [] v.t = "list" -> v.n > 0
      [] OTHER -> TRUE

\* The outcome of a call that may raise: exc is "" when it returned val.
Ret(v) == [exc |-> "", val |-> v]
Raise(e) == [exc |-> e, val |-> VNone]

Min(a, b) == IF a <= b THEN a ELSE b
Max(a, b) == IF a >= b THEN a ELSE b

(***************************************************************************)
(* The long-term memory store: the ChromaDB collection "long_term_memory". *)
(* A record is [id, document, metadata]; metadata maps keys to values.     *)
(* Ids are positive integers, NO_ID is the empty id "".                    *)
(***************************************************************************)
NO_ID == 0

\* `not content.strip()`: the text is empty or whitespace only.
IsBlank(s) == s \in {"", " ", "   "}

\* A metadata value, or VNone when the key is absent: metadata.get(key).
MetaGet(md, key) == IF key \in DOMAIN md THEN md[key] ELSE VNone

\* `imp = meta.get('importance', 0.5)`, then 0.5 unless an int or a float
\* (src/long_term_memory.py:318-325 and :262-266).
ImportanceOf(md) ==
    IF "importance" \in DOMAIN md /\ md["importance"].t = "num" THEN md["importance"].n
    ELSE IF "importance" \in DOMAIN md /\ md["importance"].t = "bool" THEN 100 * md["importance"].n
    ELSE DEFAULT_IMPORTANCE

\* The metadata store_memory writes: the three reserved keys, then the
\* caller's keys (`**(memory.metadata or {})` comes last, so it wins).  The
\* timestamp is the reading of the clock, which grows from call to call.
StoredMetadata(memory_type, timestamp, importance, metadata) ==
    metadata @@ ("memory_type" :> memory_type @@ "timestamp" :> VNum(timestamp)
                 @@ "importance" :> importance)

\* An id made of the content alone.
ContentId(content, suffix) == Len(content)

\* _generate_id: "mem_", eight digits of the content's hash, "_", eight
\* digits of a uuid4.  Two ids of the same content differ exactly when
\* their suffixes do; the suffix is taken to be a number no earlier call
\* drew, and the id is identified with it.
generate_id(content, suffix) == suffix

\* store_memory without the test of the content.
StoreBlankToo(st, nid, content, memory_type, metadata, importance, addFails) ==
    IF content.t # "str"
    THEN [exc |-> "AttributeError", id |-> NO_ID, store |-> st, nextId |-> nid]
    ELSE IF addFails
    THEN [exc |-> "", id |-> NO_ID, store |-> st, nextId |-> nid + 1]
    ELSE [exc |-> "", id |-> generate_id(content.s, nid),
          store |-> Append(st, [id |-> generate_id(content.s, nid), document |-> content.s,
                                metadata |-> StoredMetadata(memory_type, nid, importance, metadata)]),
          nextId |-> nid + 1]

\* VectorMemory.store_memory.  st is the collection, nid the number of the
\* call (the suffix its id draws and the reading of its clock),
\* addFails whether collection.add raises.  The outcome is
\* [exc, id, store, nextId]: exc is "" unless the call raised.
store_memory(st, nid, content, memory_type, metadata, importance, addFails) ==
    IF content.t # "str"
    THEN [exc |-> "AttributeError", id |-> NO_ID, store |-> st, nextId |-> nid]
    ELSE IF IsBlank(content.s)
    THEN [exc |-> "", id |-> NO_ID, store |-> st, nextId |-> nid]
    ELSE IF addFails
    THEN [exc |-> "", id |-> NO_ID, store |-> st, nextId |-> nid + 1]
    ELSE [exc |-> "", id |-> generate_id(content.s, nid),
          store |-> Append(st, [id |-> generate_id(content.s, nid), document |-> content.s,
                                metadata |-> StoredMetadata(memory_type, nid, importance, metadata)]),
          nextId |-> nid + 1]

(***************************************************************************)
(* The tool registry.  arguments_json is what the model sent: a str, None, *)
(* a mapping, or a value of another type.                                  *)
(***************************************************************************)
AStr(s) == [t |-> "str", s |-> s, d |-> EmptyDict]
ANone == [t |-> "None", s |-> "", d |-> EmptyDict]
ADict(d) == [t |-> "dict", s |-> "", d |-> d]
AOther(t) == [t |-> t, s |-> "", d |-> EmptyDict]

\* The JSON texts of the model that are objects, with the mapping each is.
JsonObjects ==
    ("{}" :> EmptyDict)
    @@ ("{\"expression\": \"2 + 2 * 3\"}" :> ("expression" :> VStr("2 + 2 * 3")))
    @@ ("{\"expression\": \"__import__('os')\"}" :> ("expression" :> VStr("__import__('os')")))
    @@ ("{\"expression\": 5}" :> ("expression" :> VNum(5)))
    @@ ("{\"expression\": \"sqrt(16)\"}" :> ("expression" :> VStr("sqrt(16)")))
    @@ ("{\"expression\": \"abs(-1)\"}" :> ("expression" :> VStr("abs(-1)")))
    @@ ("{\"expression\": \"round(2.5)\"}" :> ("expression" :> VStr("round(2.5)")))
    @@ ("{\"expression\": \"1/0\"}" :> ("expression" :> VStr("1/0")))
    @@ ("{\"expression\": \"sqrt(-1)\"}" :> ("expression" :> VStr("sqrt(-1)")))
    @@ ("{\"expression\": \"__builtins__\"}" :> ("expression" :> VStr("__builtins__")))
    @@ ("{\"content\": \"note\"}" :> ("content" :> VStr("note")))
    @@ ("{\"content\": \"   \"}" :> ("content" :> VStr("   ")))
    @@ ("{\"content\": 5}" :> ("content" :> VNum(5)))
    @@ ("{\"content\": \"note\", \"memory_type\": \"fact\", \"importance\": 0.9}"
          :> ("content" :> VStr("note") @@ "memory_type" :> VStr("fact") @@ "importance" :> VNum(90)))
    @@ ("{\"content\": \"note\", \"memory_type\": \"diary\", \"importance\": 5}"
          :> ("content" :> VStr("note") @@ "memory_type" :> VStr("diary") @@ "importance" :> VNum(500)))
    @@ ("{\"query\": \"note\"}" :> ("query" :> VStr("note")))
    @@ ("{\"query\": 5}" :> ("query" :> VNum(5)))
    @@ ("{\"n_results\": 1}" :> ("n_results" :> VNum(1)))
    @@ ("{\"bogus\": 1}" :> ("bogus" :> VNum(1)))
    @@ ("{\"expression\": \"2 + 2 * 3\", \"extra\": 1}"
          :> ("expression" :> VStr("2 + 2 * 3") @@ "extra" :> VNum(1)))

\* The JSON texts of the model that are valid and no object.
JsonNonObjects == ("[1, 2]" :> "list") @@ ("5" :> "num") @@ ("null" :> "None")

\* json.loads: the parsed value, or JSONDecodeError for a text that is no JSON.
json_loads(s) ==
    IF s \in DOMAIN JsonObjects THEN Ret(ADict(JsonObjects[s]))
    ELSE IF s \in DOMAIN JsonNonObjects THEN Ret(AOther(JsonNonObjects[s]))
    ELSE Raise("JSONDecodeError")

\* The first half of call_tool's try block: arguments_json to args.
ParseArguments(arguments_json) ==
    IF arguments_json.t = "str"
    THEN json_loads(IF arguments_json.s = "" THEN "{}" ELSE arguments_json.s)
    ELSE IF arguments_json.t = "None" THEN Ret(ADict(EmptyDict))
    ELSE Ret(arguments_json)

\* `tool.run(**args)`: the TypeError Python raises before the handler's body
\* runs, or "" when args is a mapping that fits the handler's parameters.
BindError(tool, args) ==
    IF args.t # "dict" THEN "TypeError: argument after ** must be a mapping"
    ELSE IF ~(DOMAIN args.d \subseteq (tool.required \cup DOMAIN tool.defaults))
    THEN "TypeError: unexpected keyword argument"
    ELSE IF ~(tool.required \subseteq DOMAIN args.d)
    THEN "TypeError: missing required positional argument"
    ELSE ""

\* The handler's parameters after binding: the arguments, then the defaults.
Bound(tool, args) == args.d @@ tool.defaults

\* len(seq[:k]) for a sequence of length len.
SliceLen(len, k) == IF k >= 0 THEN Min(k, len) ELSE Max(0, len + k)

\* s[:n]
Prefix(s, n) == SubSeq(s, 1, SliceLen(Len(s), n))

(***************************************************************************)
(* The handlers.  env is what a handler finds outside its arguments:       *)
(*   vm        get_vector_memory() returned a store (not None)             *)
(*   store     the collection,  nextId  the next fresh record id           *)
(*   addFails  collection.add raises,  readFails  query/get/count raise    *)
(* A handler's outcome is [exc, result, store, nextId]; result is the JSON *)
(* object it returned (a mapping from keys to values).                     *)
(***************************************************************************)
Returned(result, st, nid) == [exc |-> "", result |-> result, store |-> st, nextId |-> nid]
Raised(e, env) == [exc |-> e, result |-> EmptyDict, store |-> env.store, nextId |-> env.nextId]
ErrorResult(msg) == "error" :> VStr(msg)

\* The records a `where` filter on memory_type lets through (no filter when
\* memory_type is falsy).
MatchingType(st, memory_type) ==
    IF Truthy(memory_type)
    THEN SelectSeq(st, LAMBDA r : MetaGet(r.metadata, "memory_type") = memory_type)
    ELSE st

\* _store_memory_run
StoreMemoryRun(p, env) ==
    IF ~env.vm THEN Returned(ErrorResult("Long-term memory not available"), env.store, env.nextId)
    ELSE LET r == store_memory(env.store, env.nextId, p["content"], p["memory_type"],
                               EmptyDict, p["importance"], env.addFails)
         IN  IF r.exc # ""
             THEN Returned(ErrorResult(r.exc), env.store, env.nextId)
             ELSE Returned("success" :> VBool(TRUE)
                           @@ "memory_id" :> VNum(r.id)
                           @@ "content" :> (IF Len(p["content"].s) > 100
                                            THEN VStr(Prefix(p["content"].s, 100) \o "...")
                                            ELSE p["content"])
                           @@ "type" :> p["memory_type"]
                           @@ "importance" :> p["importance"],
                           r.store, r.nextId)

\* _search_memory_run: the number of matches is what the index returns for
\* n_results under the type filter; a failing query yields no match.
SearchMemoryRun(p, env) ==
    IF ~env.vm THEN Returned(ErrorResult("Long-term memory not available"), env.store, env.nextId)
    ELSE IF p["query"].t # "str"
    THEN Returned(ErrorResult("AttributeError"), env.store, env.nextId)
    ELSE LET found == IF IsBlank(p["query"].s) \/ env.readFails
                         \/ p["n_results"].t # "num" \/ p["n_results"].n < 1
                      THEN 0
                      ELSE Min(p["n_results"].n, Len(MatchingType(env.store, p["memory_type"])))
         IN  Returned("query" :> p["query"] @@ "found" :> VNum(found) @@ "memories" :> VList(found),
                      env.store, env.nextId)

\* _get_recent_memories_run
GetRecentMemoriesRun(p, env) ==
    IF ~env.vm THEN Returned(ErrorResult("Long-term memory not available"), env.store, env.nextId)
    ELSE LET count == IF env.readFails \/ p["n_results"].t # "num" \/ p["n_results"].n < 1
                      THEN 0
                      ELSE Min(p["n_results"].n, Len(MatchingType(env.store, p["memory_type"])))
         IN  Returned("count" :> VNum(count) @@ "memories" :> VList(count), env.store, env.nextId)

\* _memory_stats_run; of the statistics only the total is modelled.
MemoryStatsRun(p, env) ==
    IF ~env.vm THEN Returned(ErrorResult("Long-term memory not available"), env.store, env.nextId)
    ELSE IF env.readFails THEN Returned(ErrorResult("store error"), env.store, env.nextId)
    ELSE Returned("total_memories" :> VNum(Len(env.store))
                  @@ "database_path" :> VStr("./memory_db"), env.store, env.nextId)

\* The identifiers `eval` can resolve: the public names of math, and
\* __builtins__, which is the empty mapping (src/tools.py:231-232).
MathNames == {"sqrt", "pi", "e", "floor", "ceil", "sin", "cos", "log", "pow", "fabs"}
\* The names with the builtins abs and round added.
AllowedWithBuiltins == MathNames \cup {"__builtins__", "abs", "round"}

AllowedNames == MathNames \cup {"__builtins__"}

\* The expressions of the model: the identifiers each references, its value
\* when they all resolve, and the error its arithmetic raises, if any.
Expressions ==
    ("2 + 2 * 3" :> [ids |-> {}, value |-> VNum(8), error |-> ""])
    @@ ("sqrt(16)" :> [ids |-> {"sqrt"}, value |-> VNum(4), error |-> ""])
    @@ ("abs(-1)" :> [ids |-> {"abs"}, value |-> VNum(1), error |-> ""])
    @@ ("round(2.5)" :> [ids |-> {"round"}, value |-> VNum(2), error |-> ""])
    @@ ("1/0" :> [ids |-> {}, value |-> VNone, error |-> "ZeroDivisionError"])
    @@ ("sqrt(-1)" :> [ids |-> {"sqrt"}, value |-> VNone, error |-> "ValueError"])
    @@ ("__builtins__" :> [ids |-> {"__builtins__"}, value |-> VDict, error |-> ""])
    @@ ("__import__('os')" :> [ids |-> {"__import__"}, value |-> VNone, error |-> ""])

\* eval(expression, allowed, {})
Eval(expression) ==
    IF expression.t # "str" THEN Raise("TypeError")
    ELSE IF expression.s \notin DOMAIN Expressions THEN Raise("SyntaxError")
    ELSE LET x == Expressions[expression.s]
         IN  IF ~(x.ids \subseteq AllowedNames) THEN Raise("NameError")
             ELSE IF x.error # "" THEN Raise(x.error)
             ELSE Ret(x.value)

\* _calc_run with a failure result of the error text alone.
CalcRunErrorOnly(p, env) ==
    LET r == Eval(p["expression"])
    IN  IF r.exc # ""
        THEN Returned("error" :> VStr(r.exc), env.store, env.nextId)
        ELSE Returned("ok" :> VBool(TRUE) @@ "expression" :> p["expression"] @@ "result" :> r.val,
                      env.store, env.nextId)

\* _calc_run
CalcRun(p, env) ==
    LET r == Eval(p["expression"])
    IN  IF r.exc # ""
        THEN Returned("ok" :> VBool(FALSE) @@ "error" :> VStr(r.exc), env.store, env.nextId)
        ELSE Returned("ok" :> VBool(TRUE) @@ "expression" :> p["expression"] @@ "result" :> r.val,
                      env.store, env.nextId)

\* The number of files of ./docs that contain the query.
DocHits(query) == IF query = "note" THEN 1 ELSE 0

\* _retrieve_run: it has no try block of its own.
RetrieveRun(p, env) ==
    IF p["query"].t # "str" THEN Raised("AttributeError", env)
    ELSE IF p["k"].t # "num" THEN Raised("TypeError", env)
    ELSE Returned("query" :> p["query"]
                  @@ "hits" :> VList(SliceLen(DocHits(p["query"].s), p["k"].n)),
                  env.store, env.nextId)

\* _web_search_run
WebSearchRun(p, env) ==
    Returned("query" :> p["query"] @@ "results" :> VList(1), env.store, env.nextId)

\* The body of the handler named run, on its bound parameters.
RunHandler(run, p, env) ==
    CASE run = "_store_memory_run" -> StoreMemoryRun(p, env)
      [] run = "_search_memory_run" -> SearchMemoryRun(p, env)
      [] run = "_get_recent_memories_run" -> GetRecentMemoriesRun(p, env)
      [] run = "_memory_stats_run" -> MemoryStatsRun(p, env)
      [] run = "_calc_run" -> CalcRun(p, env)
      [] run = "_retrieve_run" -> RetrieveRun(p, env)
      [] run = "_web_search_run" -> WebSearchRun(p, env)

\* A Tool: its name, the handler's parameters without a default (required),
\* the others with their defaults, and the handler.
Tool(name, required, defaults, run) ==
    [name |-> name, required |-> required, defaults |-> defaults, run |-> run]

\* _TOOL_REGISTRY after the module's register(...) calls.
TOOL_REGISTRY ==
    ("store_memory" :> Tool("store_memory", {"content"},
                            "memory_type" :> VStr("experience") @@ "importance" :> VNum(DEFAULT_IMPORTANCE),
                            "_store_memory_run"))
    @@ ("search_memory" :> Tool("search_memory", {"query"},
                                "memory_type" :> VNone @@ "n_results" :> VNum(5),
                                "_search_memory_run"))
    @@ ("get_recent_memories" :> Tool("get_recent_memories", {},
                                      "n_results" :> VNum(10) @@ "memory_type" :> VNone,
                                      "_get_recent_memories_run"))
    @@ ("memory_stats" :> Tool("memory_stats", {}, EmptyDict, "_memory_stats_run"))
    @@ ("calculator" :> Tool("calculator", {"expression"}, EmptyDict, "_calc_run"))
    @@ ("retrieve" :> Tool("retrieve", {"query"}, "k" :> VNum(3), "_retrieve_run"))
    @@ ("web_search" :> Tool("web_search", {"query"}, EmptyDict, "_web_search_run"))

\* The names in the order of the register(...) calls.
RegistrationOrder ==
    <<"store_memory", "search_memory", "get_recent_memories", "memory_stats",
      "calculator", "retrieve", "web_search">>

\* The `schema` of each registered tool: the names of its properties and
\* its required list.
Schemas ==
    ("store_memory" :> [type |-> "object", properties |-> {"content", "memory_type", "importance"},
                        required |-> <<"content">>])
    @@ ("search_memory" :> [type |-> "object", properties |-> {"query", "memory_type", "n_results"},
                            required |-> <<"query">>])
    @@ ("get_recent_memories" :> [type |-> "object", properties |-> {"n_results", "memory_type"},
                                  required |-> <<>>])
    @@ ("memory_stats" :> [type |-> "object", properties |-> {}, required |-> <<>>])
    @@ ("calculator" :> [type |-> "object", properties |-> {"expression"},
                         required |-> <<"expression">>])
    @@ ("retrieve" :> [type |-> "object", properties |-> {"query", "k"}, required |-> <<"query">>])
    @@ ("web_search" :> [type |-> "object", properties |-> {"query"}, required |-> <<"query">>])

\* The `description` of each registered tool.
Descriptions ==
    ("store_memory" :> "Store important information in long-term memory for future reference.")
    @@ ("search_memory" :> "Search long-term memory for relevant information using semantic similarity.")
    @@ ("get_recent_memories" :> "Get the most recently stored memories.")
    @@ ("memory_stats" :> "Get statistics about the long-term memory database.")
    @@ ("calculator" :> "Evaluate a mathematical expression using Python math.")
    @@ ("retrieve" :> "Search local Markdown files in ./docs and return snippets.")
    @@ ("web_search" :> "Search the web (stub; wire to your provider).")

\* Tool.to_openai_spec
to_openai_spec(tool) ==
    [type |-> "function",
     function |-> [name |-> tool.name,
                   description |-> Descriptions[tool.name],
                   parameters |-> Schemas[tool.name]]]

\* register with a list in place of the dict.
RegisterAppend(reg, tool) == Append(reg, tool)

\* register: `_TOOL_REGISTRY[tool.name] = tool`.  The dict is the list of
\* its values in the order of the dict: a new key goes to the end, a key it
\* holds keeps its place and gets the new value.
register(reg, tool) ==
    IF \E i \in 1..Len(reg) : reg[i].name = tool.name
    THEN [i \in 1..Len(reg) |-> IF reg[i].name = tool.name THEN tool ELSE reg[i]]
    ELSE Append(reg, tool)

\* The dict as a mapping of its keys: `name in _TOOL_REGISTRY`,
\* `_TOOL_REGISTRY[name]`.
AsMapping(reg) ==
    [n \in {reg[i].name : i \in 1..Len(reg)} |->
        reg[CHOOSE i \in 1..Len(reg) :
               reg[i].name = n /\ \A j \in 1..Len(reg) : reg[j].name = n => i <= j]]

\* The tools of the module's register(...) calls, in their order.
ModuleRegistrations == [i \in 1..Len(RegistrationOrder) |-> TOOL_REGISTRY[RegistrationOrder[i]]]

RECURSIVE RegisterAll(_, _)
RegisterAll(reg, calls) ==
    IF calls = <<>> THEN reg ELSE RegisterAll(register(reg, Head(calls)), Tail(calls))

\* _TOOL_REGISTRY when the module is imported.
ModuleRegistry == RegisterAll(<<>>, ModuleRegistrations)

\* all_openai_specs: the specs of _TOOL_REGISTRY.values().
all_openai_specs(reg) == [i \in 1..Len(reg) |-> to_openai_spec(reg[i])]

\* Caught for `except json.JSONDecodeError`.
CaughtJsonOnly(exc) == exc = "JSONDecodeError"

\* What `except Exception` of call_tool catches: every exception the
\* argument parsing, the binding or a handler raises.
Caught(exc) == TRUE

\* call_tool(name, arguments_json).  The outcome is [raised, result, store,
\* nextId]: raised is "" when call_tool returned result.
call_tool(registry, name, arguments_json, env) ==
    IF name \notin DOMAIN registry
    THEN [raised |-> "", result |-> ErrorResult("Unknown tool"),
          store |-> env.store, nextId |-> env.nextId]
    ELSE LET tool == registry[name]
             parsed == ParseArguments(arguments_json)
             bindErr == IF parsed.exc # "" THEN parsed.exc ELSE BindError(tool, parsed.val)
             ran == IF bindErr # "" THEN Raised(bindErr, env)
                    ELSE RunHandler(tool.run, Bound(tool, parsed.val), env)
         IN  IF ran.exc = ""
             THEN [raised |-> "", result |-> ran.result, store |-> ran.store, nextId |-> ran.nextId]
             ELSE IF Caught(ran.exc)
             THEN [raised |-> "", result |-> ErrorResult(ran.exc),
                   store |-> env.store, nextId |-> env.nextId]
             ELSE [raised |-> ran.exc, result |-> EmptyDict,
                   store |-> env.store, nextId |-> env.nextId]

(***************************************************************************)
(* Bounds of the model.                                                    *)
(***************************************************************************)
\* The most records the store holds when a run starts.
MaxInitStore == 1

(***************************************************************************)
(* State.                                                                  *)
(***************************************************************************)
(***************************************************************************)
(* The short-term Memory of src/memory.py.                                 *)
(***************************************************************************)
\* `limit: int = 100`
DEFAULT_LIMIT == 100

\* seq[-k:] for k >= 0: the last k elements, and the whole of seq for k = 0
\* (-0 is 0).
LastSlice(seq, k) ==
    IF k = 0 \/ k >= Len(seq) THEN seq ELSE SubSeq(seq, Len(seq) - k + 1, Len(seq))

\* The last k elements of seq, none for k = 0.
LastK(seq, k) ==
    IF k >= Len(seq) THEN seq ELSE SubSeq(seq, Len(seq) - k + 1, Len(seq))

\* Memory.add_entry: append, then `self.entries = self.entries[-self.limit:]`
\* when there are more than limit entries.
add_entry(es, lim, entry) ==
    IF Len(es) + 1 > lim THEN LastSlice(Append(es, entry), lim) ELSE Append(es, entry)

\* Memory.get_recent_entries: `self.entries[-count:] if self.entries else []`.
get_recent_entries(es, count) == IF es # <<>> THEN LastSlice(es, count) ELSE <<>>

VARIABLES
    \* the environment of a run
    credential,         \* OPENAI_API_KEY is set
    vmAvail,            \* get_vector_memory() returns a store, not None
    task,               \* the argument of run_agent
    initialStore,       \* the records of the store when the run starts
    faults,             \* which operations of the backing store raise during the run
    embedding_model,    \* self.embedding_model is set: the SentenceTransformer was loaded
    \* the long-term memory
    store,              \* the records of the collection, in insertion order
    nextId,             \* the next fresh record id
    \* run_agent
    pc,                 \* where the run is
    relevant_memories,  \* what the initial search returned
    messages,           \* memory.messages, the conversation buffer
    step,               \* the loop variable
    tools,              \* the tool specs passed to the model call
    final_answer,       \* None or the final content
    loopExit,           \* how the loop was left
    returned,           \* the value run_agent returned
    raised,             \* the exception run_agent raised, "" if none
    \* what the run has done so far
    modelCalls,         \* calls of openai.ChatCompletion.create
    toolCalls,          \* calls of call_tool
    ltmOps,             \* accesses of run_agent to the long-term memory (get, count, search, store)
    lastResponse,       \* what the last model call produced
    \* a direct call of call_tool
    toolOutcome,        \* the outcome of the last call
    \* consolidate_memories
    consolidated,       \* the value the last consolidate_memories returned
    consolidating,      \* a consolidate_memories call running beside other callers
    \* direct calls of the store's operations
    memOutcome,         \* the outcome of the last call
    \* the short-term Memory
    limit,              \* Memory.limit
    entries,            \* Memory.entries
    added,              \* every entry add_entry was called with, in order
    \* the tool registry
    registry,           \* the values of _TOOL_REGISTRY, in the order of the dict
    registered          \* every tool register was called with, in order

\* Memory.__init__(limit)
MemoryInit(lim) == limit = lim /\ entries = <<>> /\ added = <<>>

envVars == <<credential, vmAvail, task, initialStore, faults, embedding_model>>
ltmVars == <<store, nextId>>
runVars == <<pc, relevant_memories, messages, tools, step, final_answer, loopExit, returned, raised>>
obsVars == <<modelCalls, toolCalls, ltmOps, lastResponse>>
toolVars == <<toolOutcome>>
consVars == <<consolidated, consolidating>>
memVars == <<memOutcome>>
stmVars == <<limit, entries, added>>
regVars == <<registry, registered>>
vars == <<envVars, ltmVars, runVars, obsVars, toolVars, consVars, memVars, stmVars, regVars>>

(***************************************************************************)
(* Messages of the conversation buffer.                                    *)
(***************************************************************************)
NoCall == [present |-> FALSE, named |-> FALSE, name |-> "", arguments |-> ANone]
\* A function_call of a response; named is FALSE when its 'name' key is missing.
Call(name, arguments) == [present |-> TRUE, named |-> TRUE, name |-> name, arguments |-> arguments]
NamelessCall == [present |-> TRUE, named |-> FALSE, name |-> "", arguments |-> AStr("{}")]

\* {"role": role, "content": content}
Message(role, content) ==
    [role |-> role, content |-> content, name |-> "", function_call |-> NoCall, result |-> EmptyDict]
\* {"role": "assistant", "function_call": fc}
AssistantCall(fc) ==
    [role |-> "assistant", content |-> "", name |-> "", function_call |-> fc, result |-> EmptyDict]
\* {"role": "function", "name": name, "content": result}
FunctionResponse(name, result) ==
    [role |-> "function", content |-> "", name |-> name, function_call |-> NoCall, result |-> result]

\* The conversation buffer (the Conversation Buffer of the specification:
\* an ordered list of messages, appended to).
MemoryAdd(buffer, role, content) == Append(buffer, Message(role, content))

\* The context built from the relevant memories (src/main.py:78-80).
RECURSIVE ContextLines(_)
ContextLines(mems) ==
    IF mems = <<>> THEN ""
    ELSE "- " \o Prefix(Head(mems).document, 200) \o "...\n" \o ContextLines(Tail(mems))
\* ContextStr without the limit to the top two.
ContextStrAll(mems) == "Relevant past experiences:\n" \o ContextLines(mems)

ContextStr(mems) ==
    "Relevant past experiences:\n" \o ContextLines(SubSeq(mems, 1, SliceLen(Len(mems), CONTEXT_TOP)))

(***************************************************************************)
(* The initial search of a run.                                            *)
(***************************************************************************)
\* The positions of the records the filter importance >= min_importance lets
\* through (the index compares numbers only).
Important(st, min_importance) ==
    {i \in 1..Len(st) :
        /\ "importance" \in DOMAIN st[i].metadata
        /\ st[i].metadata["importance"].t = "num"
        /\ st[i].metadata["importance"].n >= min_importance}

\* The positions of the records a `where` filter lets through: the type when
\* memory_type is truthy, the importance when min_importance > 0.0.
Filtered(st, memory_type, min_importance) ==
    {i \in 1..Len(st) :
        /\ Truthy(memory_type) => MetaGet(st[i].metadata, "memory_type") = memory_type
        /\ min_importance > 0 => i \in Important(st, min_importance)}

\* The ways to list k members of I, each once.
Picks(I, k) == {g \in [1..k -> I] : \A a, b \in 1..k : a # b => g[a] # g[b]}

\* search_memories without the test of the query.
SearchBlankToo(st, query, n_results, memory_type, min_importance, queryFails) ==
    IF queryFails THEN {[result |-> <<>>, embedded |-> 1, queried |-> 1]}
    ELSE LET I == Filtered(st, memory_type, min_importance)
             k == Min(n_results, Cardinality(I))
         IN  {[result |-> [j \in 1..k |-> st[f[j]]], embedded |-> 1, queried |-> 1] :
                 f \in Picks(I, k)}

\* VectorMemory.search_memories.  The outcomes are [result, embedded,
\* queried]: the list returned, the number of embeddings computed and the
\* number of queries sent to the index.  A blank query returns at once; a
\* failing query yields the empty list; else the result is the n_results
\* nearest of the records passing the filter, in the order of the index (any
\* order here: the distances are the embedding model's).
search_memories(st, query, n_results, memory_type, min_importance, queryFails) ==
    IF IsBlank(query) THEN {[result |-> <<>>, embedded |-> 0, queried |-> 0]}
    ELSE IF queryFails THEN {[result |-> <<>>, embedded |-> 1, queried |-> 1]}
    ELSE LET I == Filtered(st, memory_type, min_importance)
             k == Min(n_results, Cardinality(I))
         IN  {[result |-> [j \in 1..k |-> st[f[j]]], embedded |-> 1, queried |-> 1] :
                 f \in Picks(I, k)}

\* What search_memories(query, n_results, min_importance=...) can return.
SearchResults(st, query, n_results, min_importance, queryFails) ==
    {o.result : o \in search_memories(st, query, n_results, VNone, min_importance, queryFails)}

\* `limit=min(n_results * 2, 100)`
OVERFETCH == 2
FETCH_CAP == 100

\* x['timestamp']
TimestampOf(r) == MetaGet(r.metadata, "timestamp").n

\* memories.sort(key=timestamp, reverse=True) of the records at the
\* positions I (the timestamps of a store are distinct).
RECURSIVE SortRecent(_, _)
SortRecent(st, I) ==
    IF I = {} THEN <<>>
    ELSE LET i == CHOOSE a \in I : \A b \in I : TimestampOf(st[a]) >= TimestampOf(st[b])
         IN  <<st[i]>> \o SortRecent(st, I \ {i})

\* VectorMemory.get_recent_memories: collection.get returns `limit` of the
\* records passing the filter (which ones is the index's choice: it has no
\* order by time), they are sorted by timestamp, latest first, and the
\* first n_results are returned.  A failing get yields the empty list.
get_recent_memories(st, n_results, memory_type, getFails) ==
    IF getFails THEN {<<>>}
    ELSE LET I == Filtered(st, memory_type, 0)
             get_limit == Min(n_results * OVERFETCH, FETCH_CAP)
             k == Min(get_limit, Cardinality(I))
         IN  {Prefix(SortRecent(st, F), n_results) : F \in {G \in SUBSET I : Cardinality(G) = k}}

\* metadata.get('memory_type', 'unknown')
TypeOf(md) == IF "memory_type" \in DOMAIN md THEN md["memory_type"] ELSE VStr("unknown")

\* memory_types: the number of records of each type met.
CountsByType(st) ==
    [t \in {TypeOf(st[i].metadata) : i \in 1..Len(st)} |->
        Cardinality({i \in 1..Len(st) : TypeOf(st[i].metadata) = t})]

\* importance_avg after the loop: the importances added up, 0.5 for one that
\* is no int or float.
RECURSIVE SumImportance(_, _)
SumImportance(st, k) ==
    IF k = 0 THEN 0 ELSE SumImportance(st, k - 1) + ImportanceOf(st[k].metadata)

\* round(num / den, 2) in hundredths, for num in hundredths: the nearest
\* integer, the even one of two equally near.
RoundDiv(num, den) ==
    LET q == num \div den
        r == num % den
    IN  IF 2 * r < den THEN q
        ELSE IF 2 * r > den THEN q + 1
        ELSE IF q % 2 = 0 THEN q ELSE q + 1

\* get_memory_stats with the average left as it is before round(_, 2),
\* cut to hundredths.
StatsUnrounded(st, getFails, has_model) ==
    IF getFails THEN [error |-> "store error"]
    ELSE [total_memories |-> Len(st),
          memory_types |-> CountsByType(st),
          average_importance |-> IF Len(st) = 0 THEN 0
                                 ELSE SumImportance(st, Len(st)) \div Len(st),
          database_path |-> "./memory_db",
          embedding_model |-> IF has_model THEN "SentenceTransformer" ELSE "Simple"]

\* get_memory_stats: total_memories = collection.count(), the counts by
\* type, and the average importance rounded to two decimals (0.0 for an
\* empty collection), the path and the name of the embedding strategy,
\* which is "SentenceTransformer" when self.embedding_model is set
\* (has_model) and "Simple" otherwise; the error alone when the collection
\* fails.
get_memory_stats(st, getFails, has_model) ==
    IF getFails THEN [error |-> "store error"]
    ELSE [total_memories |-> Len(st),
          memory_types |-> CountsByType(st),
          average_importance |-> IF Len(st) = 0 THEN 0
                                 ELSE RoundDiv(SumImportance(st, Len(st)), Len(st)),
          database_path |-> "./memory_db",
          embedding_model |-> IF has_model THEN "SentenceTransformer" ELSE "Simple"]

(***************************************************************************)
(* The inputs of a run.                                                    *)
(***************************************************************************)
Tasks == {"What is 2 + 2 * 3?"}
Answers == {"2 + 2 * 3 = 8"}

\* s repeated n times.
RECURSIVE Repeat(_, _)
Repeat(s, n) == IF n = 0 THEN "" ELSE s \o Repeat(s, n - 1)

\* A final answer of 250 characters.
LongAnswer == Repeat("0123456789", 25)

\* The records a store can hold when a run starts: the record of an earlier
\* completed task and the record of an earlier incomplete one.
PastRecords ==
    << [document |-> "Task: earlier\nResult: " \o LongAnswer \o "...",
        metadata |-> ("memory_type" :> VStr("experience") @@ "importance" :> VNum(IMPORTANCE_SUCCESS)
                      @@ "task_type" :> VStr("user_request") @@ "success" :> VBool(TRUE))],
       [document |-> "Incomplete task: earlier\nReached step limit after 6 steps",
        metadata |-> ("memory_type" :> VStr("experience") @@ "importance" :> VNum(IMPORTANCE_INCOMPLETE)
                      @@ "task_type" :> VStr("user_request") @@ "success" :> VBool(FALSE)
                      @@ "reason" :> VStr("step_limit"))] >>

\* The stores of n records, with ids 1..n, stored in this order.
StoresOfSize(n) ==
    {[i \in 1..n |-> [id |-> i, document |-> PastRecords[f[i]].document,
                      metadata |-> PastRecords[f[i]].metadata @@ ("timestamp" :> VNum(i))]] :
        f \in [1..n -> 1..Len(PastRecords)]}
InitStores == UNION {StoresOfSize(n) : n \in 0..MaxInitStore}

\* The tool calls the model requests in a run.
RunCalls ==
    << Call("calculator", AStr("{\"expression\": \"2 + 2 * 3\"}")),
       Call("store_memory", AStr("{\"content\": \"note\"}")) >>

\* The exceptions openai.ChatCompletion.create raises: str(e), and
\* str(e).lower().
ModelErrors ==
    << [message |-> "You exceeded your current quota", lower |-> "you exceeded your current quota"],
       [message |-> "Rate limit reached for gpt-4", lower |-> "rate limit reached for gpt-4"],
       [message |-> "Connection reset by peer", lower |-> "connection reset by peer"] >>

\* `sub in s`
Contains(s, sub) ==
    \E i \in 1..(Len(s) - Len(sub) + 1) : SubSeq(s, i, i + Len(sub) - 1) = sub

\* The test of src/main.py:150.
IsQuotaOrRateLimit(e) == Contains(e.lower, "quota") \/ Contains(e.lower, "rate limit")

\* What a model call produced: a response of some kind, or an exception with
\* its message.
Response(kind) == [kind |-> kind, message |-> ""]
Exception(message) == [kind |-> "exception", message |-> message]

\* The faults of the backing store: collection.count, .query and .add raise.
NoFaults == [count |-> FALSE, query |-> FALSE, add |-> FALSE]
Faults == [count : BOOLEAN, query : BOOLEAN, add : BOOLEAN]

NoConsolidation == [called |-> FALSE, threshold |-> 0, failed |-> FALSE, before |-> <<>>, after |-> <<>>,
                    removed |-> 0, trace |-> <<>>, again |-> FALSE, prev_removed |-> 0]

\* No consolidate_memories call runs beside other callers, and none has.
NotConsolidating == [active |-> FALSE, finished |-> FALSE, threshold |-> 0, results |-> <<>>,
                     to_delete |-> {}, before |-> <<>>, after |-> <<>>, removed |-> 0]

\* No direct call of an operation of the store has been made.
NoCallYet == [op |-> "none"]

NoOutcome == [called |-> FALSE, name |-> "", arguments |-> ANone, env |-> <<>>,
              raised |-> "", result |-> EmptyDict]

(***************************************************************************)
(* run_agent (src/main.py:29-189).                                         *)
(***************************************************************************)
\* The state when run_agent is entered, with a store among stores.
InitRunFrom(stores) ==
    /\ credential \in BOOLEAN
    /\ vmAvail \in BOOLEAN
    /\ task \in Tasks
    /\ faults \in IF vmAvail THEN Faults ELSE {NoFaults}
    /\ initialStore \in stores
    /\ embedding_model = TRUE
    /\ store = initialStore
    /\ nextId = Len(store) + 1
    /\ pc = "config"
    /\ relevant_memories = <<>>
    /\ messages = <<>>
    /\ tools = <<>>
    /\ step = 0
    /\ final_answer = VNone
    /\ loopExit = ""
    /\ returned = VNone
    /\ raised = ""
    /\ modelCalls = 0
    /\ toolCalls = 0
    /\ ltmOps = 0
    /\ lastResponse = Response("none")
    /\ toolOutcome = NoOutcome
    /\ consolidated = NoConsolidation
    /\ consolidating = NotConsolidating
    /\ memOutcome = NoCallYet
    /\ MemoryInit(DEFAULT_LIMIT)
    /\ registry = ModuleRegistry
    /\ registered = ModuleRegistrations

InitRun == InitRunFrom(InitStores)

\* CheckConfig without the test of line 54.
CheckConfigUnchecked ==
    /\ pc = "config"
    /\ pc' = "ltm" /\ raised' = raised
    /\ UNCHANGED <<stmVars, regVars, envVars, ltmVars, relevant_memories, messages, step, final_answer,
                   loopExit, returned, obsVars, tools,
                   toolVars, consVars, memVars>>

\* Lines 48-55: the configuration is loaded; a missing key raises.
CheckConfig ==
    /\ pc = "config"
    /\ IF ~credential
       THEN pc' = "raised" /\ raised' = "RuntimeError"
       ELSE pc' = "ltm" /\ raised' = raised
    /\ UNCHANGED <<stmVars, regVars, envVars, ltmVars, relevant_memories, messages, step, final_answer,
                   loopExit, returned, obsVars, tools,
                   toolVars, consVars, memVars>>

\* Lines 57-69: the long-term memory is fetched, counted and searched.  The
\* count of line 61 is outside every try block.
InitLongTermMemory ==
    /\ pc = "ltm"
    /\ IF vmAvail
       THEN IF faults.count
            THEN /\ pc' = "raised" /\ raised' = "StoreError"
                 /\ ltmOps' = ltmOps + 2
                 /\ relevant_memories' = relevant_memories
            ELSE /\ pc' = "seed" /\ raised' = raised
                 /\ ltmOps' = ltmOps + 3
                 /\ relevant_memories' \in
                      SearchResults(store, task, SEARCH_N_RESULTS, MIN_IMPORTANCE, faults.query)
       ELSE /\ pc' = "seed" /\ raised' = raised
            /\ ltmOps' = ltmOps + 1
            /\ relevant_memories' = <<>>
    /\ UNCHANGED <<stmVars, regVars, envVars, ltmVars, messages, step, final_answer, loopExit, returned,
                   modelCalls, toolCalls, lastResponse, tools,
                   toolVars, consVars, memVars>>

\* Lines 71-89: the buffer is seeded and the loop entered.
SeedBuffer ==
    /\ pc = "seed"
    /\ LET seeded == MemoryAdd(<<>>, "system", SYSTEM_PROMPT)
           withContext == IF vmAvail /\ relevant_memories # <<>>
                          THEN MemoryAdd(seeded, "system", ContextStr(relevant_memories))
                          ELSE seeded
       IN  messages' = MemoryAdd(withContext, "user", task)
    /\ tools' = all_openai_specs(registry)
    /\ step' = 1
    /\ pc' = "step"
    /\ UNCHANGED <<stmVars, regVars, envVars, ltmVars, relevant_memories, final_answer, loopExit, returned,
                   raised, obsVars, toolVars, consVars, memVars>>

\* NextIteration with the loop running one step too far.
NextIterationOffByOne ==
    IF step < MAX_STEPS + 1
    THEN step' = step + 1 /\ pc' = "step" /\ loopExit' = loopExit
    ELSE step' = step /\ pc' = "persist" /\ loopExit' = "exhausted"

\* `continue`, or the end of the loop body: the next step, or the end of the loop.
NextIteration ==
    IF step < MAX_STEPS
    THEN step' = step + 1 /\ pc' = "step" /\ loopExit' = loopExit
    ELSE step' = step /\ pc' = "persist" /\ loopExit' = "exhausted"

\* `break`
Break(how) == step' = step /\ pc' = "persist" /\ loopExit' = how

\* OnException retrying after a KeyError as after any other exception.
OnExceptionRetryKeyError(cls, e) ==
    IF IsQuotaOrRateLimit(e) THEN Break("fatal") ELSE NextIteration

\* OnException without the test for quota and rate limit errors.
OnExceptionNoAbort(cls, e) ==
    IF cls = "KeyError" THEN Break("malformed") ELSE NextIteration

\* The except clauses of lines 141-153, for an exception of class cls.
OnException(cls, e) ==
    IF cls = "KeyError" THEN Break("malformed")
    ELSE IF IsQuotaOrRateLimit(e) THEN Break("fatal")
    ELSE NextIteration

\* Lines 108-129: the response requests a tool call.
StepToolCall ==
    /\ pc = "step"
    /\ \E i \in 1..Len(RunCalls) :
         LET fc == RunCalls[i]
             out == call_tool(TOOL_REGISTRY, fc.name, fc.arguments,
                              [vm |-> vmAvail, store |-> store, nextId |-> nextId,
                               addFails |-> faults.add, readFails |-> faults.query])
         IN  /\ store' = out.store
             /\ nextId' = out.nextId
             /\ IF out.raised = ""
                THEN /\ messages' = messages \o <<AssistantCall(fc), FunctionResponse(fc.name, out.result)>>
                     /\ NextIteration
                ELSE /\ messages' = Append(messages, AssistantCall(fc))
                     /\ OnException(out.raised, [message |-> out.raised, lower |-> out.raised])
    /\ modelCalls' = modelCalls + 1
    /\ toolCalls' = toolCalls + 1
    /\ lastResponse' = Response("tool_call")
    /\ UNCHANGED <<stmVars, regVars, envVars, relevant_memories, final_answer, returned, raised, ltmOps,
                   tools,
                   toolVars, consVars, memVars>>

\* Lines 109-115: the response carries a function_call without a name; the
\* KeyError of line 115 comes after the append of line 112.
StepNamelessCall ==
    /\ pc = "step"
    /\ messages' = Append(messages, AssistantCall(NamelessCall))
    /\ OnException("KeyError", [message |-> "'name'", lower |-> "'name'"])
    /\ modelCalls' = modelCalls + 1
    /\ lastResponse' = Response("nameless_call")
    /\ UNCHANGED <<stmVars, regVars, envVars, ltmVars, relevant_memories, final_answer, returned, raised,
                   toolCalls, ltmOps, tools,
                   toolVars, consVars, memVars>>

\* Lines 131-137: the response carries content and no function_call.
StepFinal ==
    /\ pc = "step"
    /\ \E content \in Answers :
         /\ final_answer' = VStr(content)
         /\ messages' = MemoryAdd(messages, "assistant", content)
    /\ Break("final")
    /\ modelCalls' = modelCalls + 1
    /\ lastResponse' = Response("content")
    /\ UNCHANGED <<stmVars, regVars, envVars, ltmVars, relevant_memories, returned, raised, toolCalls, ltmOps,
                   tools,
                   toolVars, consVars, memVars>>

\* StepEmpty taking the empty content for the final answer.
StepEmptyAsFinal ==
    /\ pc = "step"
    /\ final_answer' = VStr("")
    /\ messages' = MemoryAdd(messages, "assistant", "")
    /\ Break("final")
    /\ modelCalls' = modelCalls + 1
    /\ lastResponse' = Response("empty")
    /\ UNCHANGED <<stmVars, regVars, envVars, ltmVars, relevant_memories, returned, raised, toolCalls, ltmOps,
                   tools, toolVars, consVars, memVars>>

\* Lines 138-139: the response carries neither.
StepEmpty ==
    /\ pc = "step"
    /\ NextIteration
    /\ modelCalls' = modelCalls + 1
    /\ lastResponse' = Response("empty")
    /\ UNCHANGED <<stmVars, regVars, envVars, ltmVars, relevant_memories, messages, final_answer, returned,
                   raised, toolCalls, ltmOps, tools,
                   toolVars, consVars, memVars>>

\* Lines 106 and 141-145: the response lacks 'choices' or 'message'.
StepMalformedResponse ==
    /\ pc = "step"
    /\ OnException("KeyError", [message |-> "'choices'", lower |-> "'choices'"])
    /\ modelCalls' = modelCalls + 1
    /\ lastResponse' = Response("malformed")
    /\ UNCHANGED <<stmVars, regVars, envVars, ltmVars, relevant_memories, messages, final_answer, returned,
                   raised, toolCalls, ltmOps, tools,
                   toolVars, consVars, memVars>>

\* Lines 97-103 and 146-153: the model call raises.
StepModelError ==
    /\ pc = "step"
    /\ \E i \in 1..Len(ModelErrors) :
         /\ OnException("Exception", ModelErrors[i])
         /\ lastResponse' = Exception(ModelErrors[i].message)
    /\ modelCalls' = modelCalls + 1
    /\ UNCHANGED <<stmVars, regVars, envVars, ltmVars, relevant_memories, messages, final_answer, returned,
                   raised, toolCalls, ltmOps, tools,
                   toolVars, consVars, memVars>>

\* The record of a completed task (lines 158-164).
ExperienceOf(t, answer) == "Task: " \o t \o "\nResult: " \o Prefix(answer, 500) \o "..."
SuccessMetadata == "task_type" :> VStr("user_request") @@ "success" :> VBool(TRUE)
\* The record of an incomplete task (lines 177-183).
IncompleteOf(t) == "Incomplete task: " \o t \o "\nReached step limit after 6 steps"
IncompleteMetadata ==
    "task_type" :> VStr("user_request") @@ "success" :> VBool(FALSE) @@ "reason" :> VStr("step_limit")

\* Persist storing the record of an incomplete task whatever the outcome.
PersistAlwaysIncomplete ==
    /\ pc = "persist"
    /\ IF vmAvail
       THEN LET r == store_memory(store, nextId, VStr(IncompleteOf(task)),
                                  VStr("experience"), IncompleteMetadata,
                                  VNum(IMPORTANCE_INCOMPLETE), faults.add)
            IN  store' = r.store /\ nextId' = r.nextId /\ ltmOps' = ltmOps + 1
       ELSE UNCHANGED <<ltmVars, ltmOps>>
    /\ returned' = IF Truthy(final_answer) THEN final_answer ELSE VStr(FALLBACK_SENTENCE)
    /\ pc' = "done"
    /\ UNCHANGED <<stmVars, regVars, envVars, relevant_memories, messages, step, final_answer, loopExit, raised,
                   modelCalls, toolCalls, lastResponse, tools,
                   toolVars, consVars, memVars>>

\* Persist storing a record only for a completed task.
PersistSuccessOnly ==
    /\ pc = "persist"
    /\ IF vmAvail /\ Truthy(final_answer)
       THEN LET r == store_memory(store, nextId, VStr(ExperienceOf(task, final_answer.s)),
                                  VStr("experience"), SuccessMetadata,
                                  VNum(IMPORTANCE_SUCCESS), faults.add)
            IN  store' = r.store /\ nextId' = r.nextId /\ ltmOps' = ltmOps + 1
       ELSE UNCHANGED <<ltmVars, ltmOps>>
    /\ returned' = IF Truthy(final_answer) THEN final_answer ELSE VStr(FALLBACK_SENTENCE)
    /\ pc' = "done"
    /\ UNCHANGED <<stmVars, regVars, envVars, relevant_memories, messages, step, final_answer, loopExit, raised,
                   modelCalls, toolCalls, lastResponse, tools,
                   toolVars, consVars, memVars>>

\* Lines 155-189: the outcome is stored and the result returned.
Persist ==
    /\ pc = "persist"
    /\ IF vmAvail
       THEN LET r == IF Truthy(final_answer)
                     THEN store_memory(store, nextId, VStr(ExperienceOf(task, final_answer.s)),
                                       VStr("experience"), SuccessMetadata,
                                       VNum(IMPORTANCE_SUCCESS), faults.add)
                     ELSE store_memory(store, nextId, VStr(IncompleteOf(task)),
                                       VStr("experience"), IncompleteMetadata,
                                       VNum(IMPORTANCE_INCOMPLETE), faults.add)
            IN  store' = r.store /\ nextId' = r.nextId /\ ltmOps' = ltmOps + 1
       ELSE UNCHANGED <<ltmVars, ltmOps>>
    /\ returned' = IF Truthy(final_answer) THEN final_answer ELSE VStr(FALLBACK_SENTENCE)
    /\ pc' = "done"
    /\ UNCHANGED <<stmVars, regVars, envVars, relevant_memories, messages, step, final_answer, loopExit, raised,
                   modelCalls, toolCalls, lastResponse, tools,
                   toolVars, consVars, memVars>>

Next ==
    \/ CheckConfig
    \/ InitLongTermMemory
    \/ SeedBuffer
    \/ StepToolCall
    \/ StepNamelessCall
    \/ StepFinal
    \/ StepEmpty
    \/ StepMalformedResponse
    \/ StepModelError
    \/ Persist

Spec == InitRun /\ [][Next]_vars

\* The run is one thread of control: it takes its next step whenever it has one.
FairSpec == Spec /\ WF_vars(Next)

(***************************************************************************)
(* The start of a run up to its first model call, with larger stores.      *)
(***************************************************************************)
\* The most records of the store when such a run starts.
MaxSeedStore == 3

SeedStores == UNION {StoresOfSize(n) : n \in 0..MaxSeedStore}

InitSeed == InitRunFrom(SeedStores)

NextSeed == CheckConfig \/ InitLongTermMemory \/ SeedBuffer

SpecSeed == InitSeed /\ [][NextSeed]_vars

(***************************************************************************)
(* Direct calls of call_tool (src/tools.py:36-49), as the test and demo    *)
(* scripts make them, with every kind of name and of arguments.            *)
(***************************************************************************)
\* The most direct tool calls in a row.
MaxToolCalls == 1

ToolNames == DOMAIN TOOL_REGISTRY \cup {"nonexistent_tool", ""}

ArgumentInputs ==
    {ANone, AOther("num"), AOther("list"), AStr(""), AStr("not json")}
    \cup {AStr(t) : t \in DOMAIN JsonObjects \cup DOMAIN JsonNonObjects}
    \cup {ADict(JsonObjects[t]) : t \in DOMAIN JsonObjects}

\* The state no run is in: the other operations start from it.
NoRun ==
    /\ credential = TRUE
    /\ task \in Tasks
    /\ faults = NoFaults
    /\ initialStore = <<>>
    /\ store = <<>>
    /\ nextId = 1
    /\ pc = "idle"
    /\ relevant_memories = <<>>
    /\ messages = <<>>
    /\ tools = <<>>
    /\ step = 0
    /\ final_answer = VNone
    /\ loopExit = ""
    /\ returned = VNone
    /\ raised = ""
    /\ modelCalls = 0
    /\ toolCalls = 0
    /\ ltmOps = 0
    /\ lastResponse = Response("none")
    /\ toolOutcome = NoOutcome
    /\ consolidated = NoConsolidation
    /\ consolidating = NotConsolidating
    /\ memOutcome = NoCallYet

\* No run is active, the Memory is a fresh one and the registry is the one
\* of the imported module; whether the store has its embedding model is left
\* open.
Fresh ==
    /\ NoRun
    /\ MemoryInit(DEFAULT_LIMIT)
    /\ registry = ModuleRegistry
    /\ registered = ModuleRegistrations

\* Fresh, with a store whose embedding model was loaded.
Idle == Fresh /\ embedding_model = TRUE

InitTool == Idle /\ vmAvail \in BOOLEAN

CallTool ==
    /\ pc = "idle"
    /\ toolCalls < MaxToolCalls
    /\ \E name \in ToolNames, arguments_json \in ArgumentInputs, fault \in {"none", "add", "read"} :
         LET env == [vm |-> vmAvail, store |-> store, nextId |-> nextId,
                     addFails |-> fault = "add", readFails |-> fault = "read"]
             out == call_tool(TOOL_REGISTRY, name, arguments_json, env)
         IN  /\ toolOutcome' = [called |-> TRUE, name |-> name, arguments |-> arguments_json,
                                env |-> env, raised |-> out.raised, result |-> out.result]
             /\ store' = out.store
             /\ nextId' = out.nextId
    /\ toolCalls' = toolCalls + 1
    /\ UNCHANGED <<stmVars, regVars, envVars, runVars, modelCalls, ltmOps, lastResponse, consVars, memVars>>

NextTool == CallTool

SpecTool == InitTool /\ [][NextTool]_vars

(***************************************************************************)
(* consolidate_memories (src/long_term_memory.py:281-344).                 *)
(***************************************************************************)
\* src/long_term_memory.py:281, the default similarity_threshold (0.95)
SIMILARITY_THRESHOLD == 95

\* The most store_memory calls of a consolidation scenario.
MaxStoreCalls == 3

\* _generate_embedding on the documents of the model: "alpha" and "alpha."
\* are near-identical (cosine 0.995), "beta" is unlike both (cosine 0 and 0.0995).
Embedding(document) ==
    CASE document = "alpha" -> <<10, 0>>
      [] document = "alpha." -> <<10, 1>>
      [] document = "beta" -> <<0, 10>>
      [] OTHER -> <<1, 1>>

RECURSIVE DotFrom(_, _, _)
DotFrom(a, b, k) == IF k > Len(a) THEN 0 ELSE a[k] * b[k] + DotFrom(a, b, k + 1)

\* np.dot(a, b)
Dot(a, b) == DotFrom(a, b, 1)

\* The dimension of the fallback embeddings of the model (384 in the code,
\* where the 32 bytes of the digest give 128 components and the rest is 0.0).
EmbedDim == 8

\* hashlib.sha256(text.encode()).digest(): the first bytes of the digests of
\* the texts of the model.
Sha256Digest(text) ==
    CASE text = "alpha" -> <<142, 211, 246>>
      [] text = "alpha." -> <<29, 142, 251>>
      [] text = "beta" -> <<244, 78, 100>>
      [] OTHER -> <<227, 176, 196>>

\* The four components of a byte, in 128ths: (b >> k) % 256 / 128.0 - 1.0.
ByteComponents(b) ==
    << (b % 256) - 128, ((b \div 2) % 256) - 128,
       ((b \div 4) % 256) - 128, ((b \div 8) % 256) - 128 >>

RECURSIVE Components(_, _)
Components(bytes, n) ==
    IF n = 0 THEN <<>> ELSE Components(bytes, n - 1) \o ByteComponents(bytes[n])

\* A fallback embedding of padding alone.
PaddingOnly(text, dim) == [k \in 1..dim |-> 0]

\* simple_embedding without the padding loop.
SimpleEmbeddingUnpadded(text, dim) ==
    LET hash_bytes == Sha256Digest(text)
    IN  Components(hash_bytes, Min(Len(hash_bytes), dim \div 8))

\* simple_embedding(text, dim): the components of the first
\* min(len(digest), dim // 8) bytes, padded with 0.0 to dim and cut to dim.
simple_embedding(text, dim) ==
    LET hash_bytes == Sha256Digest(text)
        embedding == Components(hash_bytes, Min(Len(hash_bytes), dim \div 8))
    IN  [k \in 1..dim |-> IF k <= Len(embedding) THEN embedding[k] ELSE 0]

\* _generate_embedding in an instance with or without an embedding model,
\* whose encode can fail.
generate_embedding(has_model, encodeFails, text, dim) ==
    IF has_model /\ ~encodeFails THEN Embedding(text) ELSE simple_embedding(text, dim)

\* `similarity > similarity_threshold` for similarity =
\* dot(a, b) / (norm(a) * norm(b)) and a threshold in hundredths, in exact
\* arithmetic; with a zero vector the similarity is nan and the test false.
SimilarityAbove(a, b, threshold) ==
    LET d == Dot(a, b)
        nn == Dot(a, a) * Dot(b, b)
    IN  IF nn = 0 THEN FALSE
        ELSE IF threshold >= 0
        THEN d > 0 /\ d * d * 10000 > threshold * threshold * nn
        ELSE d >= 0 \/ d * d * 10000 < threshold * threshold * nn

\* similarity >= threshold, for the statements about it.
SimilarityAtLeast(a, b, threshold) ==
    LET d == Dot(a, b)
        nn == Dot(a, a) * Dot(b, b)
    IN  IF nn = 0 THEN FALSE
        ELSE IF threshold >= 0
        THEN d >= 0 /\ d * d * 10000 >= threshold * threshold * nn
        ELSE d >= 0 \/ d * d * 10000 <= threshold * threshold * nn

\* MarkPair marking the later record whatever the importances.
MarkPairLater(recs, i, j, threshold, to_delete) ==
    IF SimilarityAbove(Embedding(recs[i].document), Embedding(recs[j].document), threshold)
    THEN to_delete \cup {recs[j].id}
    ELSE to_delete

\* MarkPair keeping the later record of two of equal importance.
MarkPairTieFirst(recs, i, j, threshold, to_delete) ==
    IF SimilarityAbove(Embedding(recs[i].document), Embedding(recs[j].document), threshold)
    THEN IF ImportanceOf(recs[i].metadata) > ImportanceOf(recs[j].metadata)
         THEN to_delete \cup {recs[j].id}
         ELSE to_delete \cup {recs[i].id}
    ELSE to_delete

\* MarkPair marking the earlier record whatever the importances.
MarkPairEarlier(recs, i, j, threshold, to_delete) ==
    IF SimilarityAbove(Embedding(recs[i].document), Embedding(recs[j].document), threshold)
    THEN to_delete \cup {recs[i].id}
    ELSE to_delete

\* Lines 313-330: the pair (i, j) of the snapshot marks one of its records
\* when its similarity is above the threshold.
MarkPair(recs, i, j, threshold, to_delete) ==
    IF SimilarityAbove(Embedding(recs[i].document), Embedding(recs[j].document), threshold)
    THEN IF ImportanceOf(recs[i].metadata) >= ImportanceOf(recs[j].metadata)
         THEN to_delete \cup {recs[j].id}
         ELSE to_delete \cup {recs[i].id}
    ELSE to_delete

\* The id the pair (i, j) marks, NO_ID when it marks none.
MarkedBy(recs, i, j, threshold) ==
    LET m == MarkPair(recs, i, j, threshold, {})
    IN  IF m = {} THEN NO_ID ELSE CHOOSE x \in m : TRUE

\* The loops carry acc = [to_delete, trace]: the set to_delete, and for
\* every pair compared its positions, to_delete as it was then and the id
\* the pair marked.
Compared(recs, i, j, threshold, acc) ==
    [to_delete |-> MarkPair(recs, i, j, threshold, acc.to_delete),
     trace |-> Append(acc.trace, [i |-> i, j |-> j, marks |-> acc.to_delete,
                                  marked |-> MarkedBy(recs, i, j, threshold)])]

\* The inner loop left at the first pair that marks a record.
RECURSIVE InnerLoopFirstOnly(_, _, _, _, _)
InnerLoopFirstOnly(recs, i, j, threshold, acc) ==
    IF j > Len(recs) THEN acc
    ELSE IF recs[j].id \in acc.to_delete THEN InnerLoopFirstOnly(recs, i, j + 1, threshold, acc)
    ELSE IF MarkedBy(recs, i, j, threshold) # NO_ID THEN Compared(recs, i, j, threshold, acc)
    ELSE InnerLoopFirstOnly(recs, i, j + 1, threshold, Compared(recs, i, j, threshold, acc))

\* Lines 303-333: the inner loop over j > i.  Only ids[j] is tested against
\* to_delete here; ids[i] is tested once, before the loop.
RECURSIVE InnerLoop(_, _, _, _, _)
InnerLoop(recs, i, j, threshold, acc) ==
    IF j > Len(recs) THEN acc
    ELSE IF recs[j].id \in acc.to_delete THEN InnerLoop(recs, i, j + 1, threshold, acc)
    ELSE InnerLoop(recs, i, j + 1, threshold, Compared(recs, i, j, threshold, acc))

\* Lines 299-333: the outer loop over i.
RECURSIVE OuterLoop(_, _, _, _)
OuterLoop(recs, i, threshold, acc) ==
    IF i > Len(recs) THEN acc
    ELSE IF recs[i].id \in acc.to_delete THEN OuterLoop(recs, i + 1, threshold, acc)
    ELSE OuterLoop(recs, i + 1, threshold, InnerLoop(recs, i, i + 1, threshold, acc))

\* consolidate_memories returning the number of records marked although the
\* delete failed.
ConsolidateCountsMarked(st, similarity_threshold, getFails, deleteFails) ==
    IF getFails THEN [removed |-> 0, store |-> st, trace |-> <<>>]
    ELSE IF Len(st) < 2 THEN [removed |-> 0, store |-> st, trace |-> <<>>]
    ELSE LET acc == OuterLoop(st, 1, similarity_threshold, [to_delete |-> {}, trace |-> <<>>])
         IN  IF deleteFails THEN [removed |-> Cardinality(acc.to_delete), store |-> st, trace |-> acc.trace]
             ELSE [removed |-> Cardinality(acc.to_delete),
                   store |-> SelectSeq(st, LAMBDA r : r.id \notin acc.to_delete),
                   trace |-> acc.trace]

\* consolidate_memories: the value returned, the store it leaves and the
\* pairs it compared.
\* getFails: collection.get raises; deleteFails: collection.delete raises.
consolidate_memories(st, similarity_threshold, getFails, deleteFails) ==
    IF getFails THEN [removed |-> 0, store |-> st, trace |-> <<>>]
    ELSE IF Len(st) < 2 THEN [removed |-> 0, store |-> st, trace |-> <<>>]
    ELSE LET acc == OuterLoop(st, 1, similarity_threshold, [to_delete |-> {}, trace |-> <<>>])
         IN  IF acc.to_delete = {} THEN [removed |-> 0, store |-> st, trace |-> acc.trace]
             ELSE IF deleteFails THEN [removed |-> 0, store |-> st, trace |-> acc.trace]
             ELSE [removed |-> Cardinality(acc.to_delete),
                   store |-> SelectSeq(st, LAMBDA r : r.id \notin acc.to_delete),
                   trace |-> acc.trace]

Documents == {"alpha", "alpha.", "beta"}
\* The importances stored: 0.3, 0.9 and a value that is no number.
Importances == {VNum(30), VNum(90), VStr("high")}
Thresholds == {SIMILARITY_THRESHOLD, 100}

InitCons == Idle /\ vmAvail = TRUE

\* A direct call of store_memory; the outcome of a consolidation before it
\* is forgotten.
StoreMemory ==
    /\ pc = "idle"
    /\ nextId <= MaxStoreCalls
    /\ \E content \in Documents, importance \in Importances, addFails \in BOOLEAN :
         LET r == store_memory(store, nextId, VStr(content), VStr("fact"), EmptyDict,
                               importance, addFails)
         IN  store' = r.store /\ nextId' = r.nextId
    /\ consolidated' = NoConsolidation
    /\ UNCHANGED <<consolidating, stmVars, regVars, envVars, runVars, obsVars, toolVars, memVars>>

\* A call of consolidate_memories.
Consolidate ==
    /\ pc = "idle"
    /\ \E threshold \in Thresholds, fault \in {"none", "get", "delete"} :
         LET getFails == fault = "get"
             deleteFails == fault = "delete"
             r == consolidate_memories(store, threshold, getFails, deleteFails)
         IN  /\ store' = r.store
             /\ consolidated' = [called |-> TRUE, threshold |-> threshold,
                                 failed |-> getFails \/ deleteFails,
                                 before |-> store, after |-> r.store,
                                 removed |-> r.removed, trace |-> r.trace,
                                 again |-> /\ consolidated.called /\ ~consolidated.failed
                                           /\ consolidated.threshold = threshold
                                           /\ consolidated.after = store,
                                 prev_removed |-> consolidated.removed]
    /\ UNCHANGED <<consolidating, stmVars, regVars, envVars, nextId, runVars, obsVars, toolVars, memVars>>

NextCons == StoreMemory \/ Consolidate

SpecCons == InitCons /\ [][NextCons]_vars

(***************************************************************************)
(* consolidate_memories beside concurrent store_memory calls.  The class   *)
(* takes no lock: a call is two accesses to the collection, the get of     *)
(* line 284 and the delete of line 337, and other callers' accesses may    *)
(* fall between them.  Each access is one step.                            *)
(***************************************************************************)
\* The most store_memory calls of a race.
MaxRaceStores == 3

RaceDocuments == {"alpha", "alpha."}
RaceImportances == {VNum(30), VNum(90)}

\* A delete that writes back the snapshot without the marked records.
DeleteFromSnapshot(st, run) == SelectSeq(run.results, LAMBDA r : r.id \notin run.to_delete)

\* `self.collection.delete(ids=list(to_delete))`: the records of the
\* collection, as it is now, whose ids are not among to_delete.
DeleteMarked(st, run) == SelectSeq(st, LAMBDA r : r.id \notin run.to_delete)

InitRace == Idle /\ vmAvail = TRUE

\* store_memory by another caller.
RaceStore ==
    /\ pc = "idle"
    /\ nextId <= MaxRaceStores
    /\ \E content \in RaceDocuments, importance \in RaceImportances, addFails \in BOOLEAN :
         LET r == store_memory(store, nextId, VStr(content), VStr("fact"), EmptyDict,
                               importance, addFails)
         IN  store' = r.store /\ nextId' = r.nextId
    /\ UNCHANGED <<stmVars, regVars, envVars, runVars, obsVars, toolVars, consVars, memVars>>

\* consolidate_memories up to its delete: the get of the snapshot and the
\* loops over it.  The call returns 0 here when the get raises, when the
\* snapshot has fewer than two documents and when nothing is marked.
ConsolidateRead ==
    /\ pc = "idle"
    /\ ~consolidating.active
    /\ \E threshold \in Thresholds, getFails \in BOOLEAN :
         LET marked == IF getFails \/ Len(store) < 2 THEN {}
                       ELSE OuterLoop(store, 1, threshold, [to_delete |-> {}, trace |-> <<>>]).to_delete
         IN  consolidating' = [active |-> marked # {}, finished |-> marked = {},
                               threshold |-> threshold,
                               results |-> IF getFails THEN <<>> ELSE store,
                               to_delete |-> marked,
                               before |-> store, after |-> store, removed |-> 0]
    /\ UNCHANGED <<consolidated, stmVars, regVars, envVars, ltmVars, runVars, obsVars, toolVars, memVars>>

\* consolidate_memories from its delete on: the delete of the marked ids
\* and the return of their number, or of 0 when the delete raises.
ConsolidateDelete ==
    /\ pc = "idle"
    /\ consolidating.active
    /\ \E deleteFails \in BOOLEAN :
         LET left == IF deleteFails THEN store ELSE DeleteMarked(store, consolidating)
         IN  /\ store' = left
             /\ consolidating' = [consolidating EXCEPT !.active = FALSE, !.finished = TRUE,
                                      !.before = store, !.after = left,
                                      !.removed = IF deleteFails THEN 0
                                                  ELSE Cardinality(consolidating.to_delete)]
    /\ UNCHANGED <<consolidated, stmVars, regVars, envVars, nextId, runVars, obsVars, toolVars, memVars>>

NextRace == RaceStore \/ ConsolidateRead \/ ConsolidateDelete

SpecRace == InitRace /\ [][NextRace]_vars

(***************************************************************************)
(* Direct calls of the operations of the long-term memory.                 *)
(***************************************************************************)
\* The most calls of store_memory that reach the index.
MaxStoreOps == 3

StoreContents == {"alpha", "beta", "", "   "}
Queries == {"alpha", "", "   "}
MemoryTypes == {"fact", "experience"}
TypeFilters == {VNone, VStr("fact")}
RecentCounts == {1, 2}

InitStore == Fresh /\ vmAvail = TRUE /\ embedding_model \in BOOLEAN

\* store_memory(content, memory_type)
StoreCall ==
    /\ pc = "idle"
    /\ nextId <= MaxStoreOps
    /\ \E content \in StoreContents, memory_type \in MemoryTypes, addFails \in BOOLEAN :
         LET r == store_memory(store, nextId, VStr(content), VStr(memory_type), EmptyDict,
                               VNum(DEFAULT_IMPORTANCE), addFails)
         IN  /\ store' = r.store
             /\ nextId' = r.nextId
             /\ memOutcome' = [op |-> "store", content |-> content, id |-> r.id,
                               before |-> store, after |-> r.store,
                               total_before |-> get_memory_stats(store, FALSE, embedding_model).total_memories,
                               total_after |-> get_memory_stats(r.store, FALSE, embedding_model).total_memories]
    /\ UNCHANGED <<stmVars, regVars, envVars, runVars, obsVars, toolVars, consVars>>

\* search_memories(query, n_results=3, memory_type)
SearchCall ==
    /\ pc = "idle"
    /\ \E query \in Queries, memory_type \in TypeFilters, queryFails \in BOOLEAN :
         \E o \in search_memories(store, query, SEARCH_N_RESULTS, memory_type, 0, queryFails) :
             memOutcome' = [op |-> "search", query |-> query, result |-> o.result,
                            embedded |-> o.embedded, queried |-> o.queried]
    /\ UNCHANGED <<stmVars, regVars, envVars, ltmVars, runVars, obsVars, toolVars, consVars>>

\* get_recent_memories(n_results, memory_type)
RecentCall ==
    /\ pc = "idle"
    /\ \E n_results \in RecentCounts, memory_type \in TypeFilters, getFails \in BOOLEAN :
         \E result \in get_recent_memories(store, n_results, memory_type, getFails) :
             memOutcome' = [op |-> "recent", n_results |-> n_results, memory_type |-> memory_type,
                            failed |-> getFails, before |-> store, result |-> result]
    /\ UNCHANGED <<stmVars, regVars, envVars, ltmVars, runVars, obsVars, toolVars, consVars>>

\* No earlier embedding.
NoEmbedding == [text |-> "", fallback |-> FALSE, vector |-> <<>>]

\* _generate_embedding(text), as store_memory and search_memories call it;
\* the outcome keeps the embedding made by the call before it, if that was
\* one.
EmbedCall ==
    /\ pc = "idle"
    /\ \E text \in {"alpha", "beta"}, encodeFails \in BOOLEAN :
         memOutcome' = [op |-> "embed", text |-> text,
                        fallback |-> ~embedding_model \/ encodeFails,
                        vector |-> generate_embedding(embedding_model, encodeFails, text, EmbedDim),
                        prev |-> IF memOutcome.op = "embed"
                                 THEN [text |-> memOutcome.text, fallback |-> memOutcome.fallback,
                                       vector |-> memOutcome.vector]
                                 ELSE NoEmbedding]
    /\ UNCHANGED <<stmVars, regVars, envVars, ltmVars, runVars, obsVars, toolVars, consVars>>

\* get_memory_stats(); the outcome keeps which strategy made the embedding
\* of the call before it, if that was a call of _generate_embedding.
StatsCall ==
    /\ pc = "idle"
    /\ \E getFails \in BOOLEAN :
         memOutcome' = [op |-> "stats", failed |-> getFails, before |-> store,
                        stats |-> get_memory_stats(store, getFails, embedding_model),
                        last_embedding |-> IF memOutcome.op # "embed" THEN "none"
                                           ELSE IF memOutcome.fallback THEN "fallback"
                                           ELSE "model"]
    /\ UNCHANGED <<stmVars, regVars, envVars, ltmVars, runVars, obsVars, toolVars, consVars>>

NextStore == StoreCall \/ SearchCall \/ RecentCall \/ EmbedCall \/ StatsCall

SpecStore == InitStore /\ [][NextStore]_vars

(***************************************************************************)
(* simple_embedding called with dimensions of its caller's choice.         *)
(***************************************************************************)
\* The largest dimension asked for; the digests of the model have three
\* bytes, all of which are used from dimension 24 on.
MaxEmbedDim == 33

EmbedTexts == {"alpha", "alpha.", "beta", ""}

InitEmbed == Idle /\ vmAvail = TRUE

\* simple_embedding(text, dim)
SimpleEmbedding ==
    /\ pc = "idle"
    /\ \E text \in EmbedTexts, dim \in 0..MaxEmbedDim :
         memOutcome' = [op |-> "simple_embedding", text |-> text, dim |-> dim,
                        vector |-> simple_embedding(text, dim)]
    /\ UNCHANGED <<stmVars, regVars, envVars, ltmVars, runVars, obsVars, toolVars, consVars>>

NextEmbed == SimpleEmbedding

SpecEmbed == InitEmbed /\ [][NextEmbed]_vars

(***************************************************************************)
(* store_memory calls with metadata of the caller.                         *)
(***************************************************************************)
\* The most store_memory calls with metadata.
MaxMetaStores == 2

\* The metadata passed: none, that of run_agent (src/main.py:163), and
\* mappings with keys store_memory writes itself.
Metadatas == {EmptyDict,
              "task_type" :> VStr("user_request") @@ "success" :> VBool(TRUE),
              "memory_type" :> VStr("skill"),
              "importance" :> VNum(90) @@ "timestamp" :> VStr("2020-01-01T00:00:00")}

InitMeta == Idle /\ vmAvail = TRUE

\* store_memory(content, memory_type, metadata, importance); the call time
\* is the number of the call.
StoreWithMetadata ==
    /\ pc = "idle"
    /\ nextId <= MaxMetaStores
    /\ \E content \in {"alpha", "   "}, memory_type \in MemoryTypes, metadata \in Metadatas,
          importance \in {VNum(DEFAULT_IMPORTANCE), VNum(30)}, addFails \in BOOLEAN :
         LET r == store_memory(store, nextId, VStr(content), VStr(memory_type), metadata,
                               importance, addFails)
         IN  /\ store' = r.store
             /\ nextId' = r.nextId
             /\ memOutcome' = [op |-> "store_metadata", content |-> content,
                               memory_type |-> VStr(memory_type), metadata |-> metadata,
                               importance |-> importance, time |-> nextId, id |-> r.id,
                               before |-> store, after |-> r.store]
    /\ UNCHANGED <<stmVars, regVars, envVars, runVars, obsVars, toolVars, consVars>>

NextMeta == StoreWithMetadata

SpecMeta == InitMeta /\ [][NextMeta]_vars

(***************************************************************************)
(* The statistics of stores of records of several types and importances.   *)
(***************************************************************************)
\* The most records of a store whose statistics are taken.
MaxStatStore == 3

InitStats == Idle /\ vmAvail = TRUE

\* store_memory(content, memory_type, importance=importance)
StoreTyped ==
    /\ pc = "idle"
    /\ nextId <= MaxStatStore
    /\ \E memory_type \in MemoryTypes, importance \in Importances :
         LET r == store_memory(store, nextId, VStr("alpha"), VStr(memory_type), EmptyDict,
                               importance, FALSE)
         IN  store' = r.store /\ nextId' = r.nextId
    /\ UNCHANGED <<stmVars, regVars, envVars, runVars, obsVars, toolVars, consVars, memVars>>

NextStats == StoreTyped \/ StatsCall

SpecStats == InitStats /\ [][NextStats]_vars

(***************************************************************************)
(* search_memories with the matches as it returns them.                    *)
(***************************************************************************)
\* The distances the index reports, in hundredths: the collection is made
\* with the default space, the squared L2 distance, which is never negative.
Distances == {40, 150}

\* The lists of n distances the index can report: closest first.
DistanceLists(n) == {d \in [1..n -> Distances] : \A a, b \in 1..n : a <= b => d[a] <= d[b]}

\* `max(0.0, 1.0 - distance)`, in hundredths.
Similarity(distance) == Max(0, 100 - distance)

\* The dict appended for a match: lines 184-192.
Match(r, distance) ==
    [id |-> r.id,
     content |-> r.document,
     memory_type |-> TypeOf(r.metadata),
     timestamp |-> IF "timestamp" \in DOMAIN r.metadata THEN r.metadata["timestamp"] ELSE VStr(""),
     importance |-> IF "importance" \in DOMAIN r.metadata THEN r.metadata["importance"]
                    ELSE VNum(DEFAULT_IMPORTANCE),
     similarity |-> Similarity(distance),
     metadata |-> r.metadata]

SearchCounts == {1, 2}
MinImportances == {0, 50}

InitSearch == Idle /\ vmAvail = TRUE

\* search_memories(query, n_results, memory_type, min_importance): the
\* matches of the index with their distances, formatted.
ScoredSearch ==
    /\ pc = "idle"
    /\ \E query \in {"alpha", "   "}, n_results \in SearchCounts, memory_type \in TypeFilters,
          min_importance \in MinImportances, queryFails \in BOOLEAN :
         \E o \in search_memories(store, query, n_results, memory_type, min_importance, queryFails) :
             \E distances \in DistanceLists(Len(o.result)) :
                 memOutcome' = [op |-> "scored_search", query |-> query, n_results |-> n_results,
                                memory_type |-> memory_type, min_importance |-> min_importance,
                                failed |-> queryFails, distances |-> distances,
                                matches |-> [j \in 1..Len(o.result) |-> Match(o.result[j], distances[j])]]
    /\ UNCHANGED <<stmVars, regVars, envVars, ltmVars, runVars, obsVars, toolVars, consVars>>

NextSearch == StoreTyped \/ ScoredSearch

SpecSearch == InitSearch /\ [][NextSearch]_vars

(***************************************************************************)
(* A short-term Memory and its add_entry calls.                            *)
(***************************************************************************)
\* The largest limit a Memory is constructed with, and the most add_entry
\* calls made on it.
MaxLimit == 2
MaxAdds == 4

Roles == {"user", "assistant", "system"}

InitMem ==
    /\ NoRun /\ vmAvail = TRUE /\ embedding_model = TRUE
    /\ \E lim \in 0..MaxLimit : MemoryInit(lim)
    /\ registry = ModuleRegistry
    /\ registered = ModuleRegistrations

\* add_entry(role, content); the timestamp of the entry is the number of the call.
AddEntry ==
    /\ pc = "idle"
    /\ Len(added) < MaxAdds
    /\ \E role \in Roles :
         LET entry == [timestamp |-> Len(added) + 1, role |-> role, content |-> "hi",
                       metadata |-> EmptyDict]
         IN  /\ entries' = add_entry(entries, limit, entry)
             /\ added' = Append(added, entry)
    /\ UNCHANGED <<limit, regVars, envVars, ltmVars, runVars, obsVars, toolVars, consVars, memVars>>

\* The counts get_recent_entries is called with.
Counts == 0..3

\* get_recent_entries(count): the list returned, and the entries before and
\* after the call.
GetRecentEntries ==
    /\ pc = "idle"
    /\ \E count \in Counts :
         memOutcome' = [op |-> "recent_entries", count |-> count, before |-> entries,
                        result |-> get_recent_entries(entries, count), after |-> entries]
    /\ UNCHANGED <<stmVars, regVars, envVars, ltmVars, runVars, obsVars, toolVars, consVars>>

NextMem == AddEntry \/ GetRecentEntries

SpecMem == InitMem /\ [][NextMem]_vars

(***************************************************************************)
(* The registry from the empty dict on: register calls and dispatches.     *)
(***************************************************************************)
\* The most register calls.
MaxRegisters == 3

\* The tools registered: three of the module's, and another tool under the
\* name calculator.
RegisteredTools ==
    {TOOL_REGISTRY["calculator"], TOOL_REGISTRY["web_search"], TOOL_REGISTRY["retrieve"],
     Tool("calculator", {"query"}, EmptyDict, "_web_search_run")}

InitReg ==
    /\ NoRun /\ vmAvail = TRUE /\ embedding_model = TRUE
    /\ MemoryInit(DEFAULT_LIMIT)
    /\ registry = <<>>
    /\ registered = <<>>

\* register(tool)
Register ==
    /\ pc = "idle"
    /\ Len(registered) < MaxRegisters
    /\ \E tool \in RegisteredTools :
         /\ registry' = register(registry, tool)
         /\ registered' = Append(registered, tool)
    /\ UNCHANGED <<stmVars, envVars, ltmVars, runVars, obsVars, toolVars, consVars, memVars>>

\* call_tool(name, arguments_json) on the registry as it is.
Dispatch ==
    /\ pc = "idle"
    /\ \E name \in {"calculator", "web_search", "retrieve", "memory_stats"},
          arguments_json \in {AStr("{\"expression\": \"2 + 2 * 3\"}"), ADict("query" :> VStr("note"))} :
         LET env == [vm |-> vmAvail, store |-> store, nextId |-> nextId,
                     addFails |-> FALSE, readFails |-> FALSE]
             out == call_tool(AsMapping(registry), name, arguments_json, env)
         IN  toolOutcome' = [called |-> TRUE, name |-> name, arguments |-> arguments_json,
                             env |-> env, raised |-> out.raised, result |-> out.result,
                             registered |-> registered]
    /\ UNCHANGED <<stmVars, regVars, envVars, ltmVars, runVars, obsVars, consVars, memVars>>

NextReg == Register \/ Dispatch

SpecReg == InitReg /\ [][NextReg]_vars

(***************************************************************************)
(* The properties.                                                         *)
(***************************************************************************)
Terminated == pc \in {"done", "raised"}

\* The records the run has added to the store.
NewRecords == SubSeq(store, Len(initialStore) + 1, Len(store))

\* The new records of memory_type "experience" with the given importance.
NewExperiences(importance) ==
    {i \in 1..Len(NewRecords) :
        /\ MetaGet(NewRecords[i].metadata, "memory_type") = VStr("experience")
        /\ MetaGet(NewRecords[i].metadata, "importance") = VNum(importance)}

\* The messages of quota exhaustion and of rate limiting.
QuotaMessages == {"You exceeded your current quota", "Rate limit reached for gpt-4"}
QuotaError(r) == r.kind = "exception" /\ r.message \in QuotaMessages
OtherError(r) == r.kind = "exception" /\ r.message \notin QuotaMessages
MalformedResponse(r) == r.kind \in {"malformed", "nameless_call"}

\* Every tool-call message of the buffer is followed at once by the result
\* message of the same tool.
Paired(buffer) ==
    \A i \in 1..Len(buffer) :
        buffer[i].function_call.present =>
            /\ i < Len(buffer)
            /\ buffer[i + 1].role = "function"
            /\ buffer[i + 1].name = buffer[i].function_call.name

IsPrefix(a, b) == Len(a) <= Len(b) /\ SubSeq(b, 1, Len(a)) = a

\* C1: every run terminates, and it issues at most MAX_STEPS model calls
\* whatever the model calls produce.
C1_TerminatesWithinStepLimit == <>Terminated /\ [](modelCalls <= MAX_STEPS)

C1_Witness == pc = "done" /\ loopExit = "exhausted" /\ modelCalls = MAX_STEPS

\* C2: whenever a model call is about to be issued, every tool-call message
\* of the buffer is followed at once by the result message of that tool, and
\* the buffer only grows at its end.
C2_ToolResultsFollowCalls ==
    /\ [](pc = "step" => Paired(messages))
    /\ [][IsPrefix(messages, messages')]_vars

C2_Witness ==
    /\ pc = "step"
    /\ \E i \in 1..Len(messages) : messages[i].function_call.present

\* C3 as stated: a run whose first model call returns content ends in FINAL
\* after that one call, returns the content and stores exactly one
\* "experience" record of importance 0.7 and none of importance 0.3.
C3_AsStated ==
    (pc = "done" /\ lastResponse.kind = "content" /\ step = 1) =>
        /\ loopExit = "final" /\ modelCalls = 1
        /\ returned = final_answer /\ returned.s \in Answers
        /\ Len(NewRecords) = 1
        /\ NewExperiences(IMPORTANCE_SUCCESS) = {1}

\* C3, amended: such a run ends in FINAL after that one call and returns the
\* content; it stores exactly one "experience" record of importance 0.7 when
\* the long-term memory is available and its write succeeds, and no record
\* otherwise.
C3_FinalOnFirstStep ==
    (pc = "done" /\ lastResponse.kind = "content" /\ step = 1) =>
        /\ loopExit = "final" /\ modelCalls = 1
        /\ returned = final_answer /\ returned.s \in Answers
        /\ IF vmAvail /\ ~faults.add
           THEN Len(NewRecords) = 1 /\ NewExperiences(IMPORTANCE_SUCCESS) = {1}
           ELSE NewRecords = <<>>

C3_Witness ==
    /\ pc = "done" /\ lastResponse.kind = "content" /\ step = 1
    /\ Len(NewRecords) = 1

C5_TransientErrorsRetried ==
    ((MalformedResponse(lastResponse) \/ OtherError(lastResponse)) /\ modelCalls < MAX_STEPS) =>
        pc = "step" /\ step = modelCalls + 1

\* C6: once a model call has raised an error whose message signals quota
\* exhaustion or rate limiting, the loop is left at once, no model call and
\* no tool call follows, and the run returns without a final answer.
C6_QuotaErrorAborts ==
    /\ [](QuotaError(lastResponse) =>
            /\ pc \in {"persist", "done"} /\ loopExit = "fatal"
            /\ final_answer = VNone
            /\ (pc = "done" => returned = VStr(FALLBACK_SENTENCE)))
    /\ [][QuotaError(lastResponse) => (modelCalls' = modelCalls /\ toolCalls' = toolCalls)]_vars

C6_Witness ==
    /\ QuotaError(lastResponse) /\ pc = "done"
    /\ modelCalls = 3 /\ toolCalls = 2

\* The exception the arguments, their binding or the handler raise in a
\* call of a registered tool, "" if none.
BoundaryFailure(o) ==
    LET tool == TOOL_REGISTRY[o.name]
        parsed == ParseArguments(o.arguments)
    IN  IF parsed.exc # "" THEN parsed.exc
        ELSE IF BindError(tool, parsed.val) # "" THEN BindError(tool, parsed.val)
        ELSE RunHandler(tool.run, Bound(tool, parsed.val), o.env).exc

\* C7: call_tool returns a result and never raises, for every name and every
\* arguments value: an unknown name yields an error result, and a failure of
\* the argument parsing or of the handler of a known tool yields an error
\* result that carries the description of the failure.
C7_CallToolNeverRaises ==
    toolOutcome.called =>
        /\ toolOutcome.raised = ""
        /\ toolOutcome.name \notin DOMAIN TOOL_REGISTRY =>
               toolOutcome.result = ErrorResult("Unknown tool")
        /\ (toolOutcome.name \in DOMAIN TOOL_REGISTRY /\ BoundaryFailure(toolOutcome) # "") =>
               toolOutcome.result = ErrorResult(BoundaryFailure(toolOutcome))

C7_Witness ==
    /\ toolOutcome.called
    /\ toolOutcome.name = "retrieve"
    /\ toolOutcome.arguments = ADict("query" :> VNum(5))
    /\ toolOutcome.result = ErrorResult("AttributeError")

\* C8: run_agent never raises because of the long-term memory: whatever
\* operation of the store fails, the run goes through its loop and returns a
\* text.
C8_MemoryFaultsNeverRaise ==
    credential => (raised = "" /\ (Terminated => (pc = "done" /\ returned.t = "str")))

\* C9: without the API key run_agent raises a configuration error before any
\* model call, any access to the long-term memory and any tool call, and
\* stores nothing.
C9_ConfigurationErrorFirst ==
    ~credential =>
        /\ pc \in {"config", "raised"}
        /\ pc = "raised" => raised = "RuntimeError"
        /\ modelCalls = 0 /\ toolCalls = 0 /\ ltmOps = 0
        /\ store = initialStore /\ messages = <<>>

C9_Witness == ~credential /\ vmAvail /\ pc = "raised" /\ raised = "RuntimeError"

\* The snapshot holds two records of importances 0.9 and 0.3, in either order.
TwoRecords(before) ==
    /\ Len(before) = 2
    /\ {before[1].metadata["importance"], before[2].metadata["importance"]} = {VNum(90), VNum(30)}

Keeper(before) == IF before[1].metadata["importance"] = VNum(90) THEN before[1] ELSE before[2]

\* C10 as stated: with two records of similarity at or above the threshold
\* and of importances 0.9 and 0.3 in the store, consolidate removes the one
\* of importance 0.3, keeps the other and returns 1, in either order of
\* storing (the backing store not failing).
C10_AsStated ==
    (/\ consolidated.called /\ ~consolidated.failed
     /\ TwoRecords(consolidated.before)
     /\ SimilarityAtLeast(Embedding(consolidated.before[1].document),
                          Embedding(consolidated.before[2].document), consolidated.threshold)) =>
        consolidated.removed = 1 /\ consolidated.after = <<Keeper(consolidated.before)>>

\* C10, amended: with two records of similarity strictly above the threshold
\* and of importances 0.9 and 0.3 in the store, and the backing store not
\* failing, consolidate removes the one of importance 0.3, keeps the other
\* and returns 1, in either order of storing.
C10_ConsolidateKeepsImportant ==
    (/\ consolidated.called /\ ~consolidated.failed
     /\ TwoRecords(consolidated.before)
     /\ SimilarityAbove(Embedding(consolidated.before[1].document),
                        Embedding(consolidated.before[2].document), consolidated.threshold)) =>
        consolidated.removed = 1 /\ consolidated.after = <<Keeper(consolidated.before)>>

C10_Witness ==
    /\ consolidated.called /\ ~consolidated.failed
    /\ TwoRecords(consolidated.before)
    /\ consolidated.before[1].metadata["importance"] = VNum(30)
    /\ consolidated.before[1].document # consolidated.before[2].document
    /\ consolidated.removed = 1
    /\ consolidated.after = <<consolidated.before[2]>>

\* C16: every element of the list all_openai_specs returns, the list passed
\* to the model call, has the fields name, description and parameters at its
\* top level, and parameters is an object schema with a properties map and a
\* required list.
C16_SpecsCarryNameAtTopLevel ==
    pc = "step" =>
        /\ Len(tools) = Cardinality(DOMAIN TOOL_REGISTRY)
        /\ \A i \in 1..Len(tools) :
             /\ {"name", "description", "parameters"} \subseteq DOMAIN tools[i]
             /\ tools[i].parameters.type = "object"
             /\ {"properties", "required"} \subseteq DOMAIN tools[i].parameters

\* The run-exit records among the new records: those run_agent writes.
RunExitRecords ==
    {i \in 1..Len(NewRecords) :
        MetaGet(NewRecords[i].metadata, "task_type") = VStr("user_request")}

\* C19: the record persisted at the end of a run tells the outcome and its
\* cause: success = True with importance 0.7 exactly when a final answer was
\* produced, and the reason "step_limit" only when the run used all
\* MAX_STEPS steps without a final answer.
C19_RecordTellsOutcome ==
    pc = "done" =>
        \A i \in RunExitRecords :
            LET md == NewRecords[i].metadata
            IN  /\ (MetaGet(md, "success") = VBool(TRUE)) <=> Truthy(final_answer)
                /\ MetaGet(md, "success") = VBool(TRUE) =>
                       MetaGet(md, "importance") = VNum(IMPORTANCE_SUCCESS)
                /\ MetaGet(md, "reason") = VStr("step_limit") =>
                       loopExit = "exhausted" /\ modelCalls = MAX_STEPS

\* C20: a response with neither a tool call nor content is not taken for the
\* final answer: it leaves the buffer unchanged, uses up one step, and the
\* loop goes on with the next step, or ends as exhausted after step MAX_STEPS.
C20_EmptyResponseConsumesStep ==
    [][(modelCalls' = modelCalls + 1 /\ lastResponse'.kind = "empty") =>
          /\ messages' = messages
          /\ final_answer' = VNone
          /\ IF step < MAX_STEPS
             THEN pc' = "step" /\ step' = step + 1 /\ loopExit' = ""
             ELSE pc' = "persist" /\ loopExit' = "exhausted"]_vars

C20_Witness ==
    /\ lastResponse.kind = "empty" /\ pc = "persist" /\ loopExit = "exhausted"
    /\ modelCalls = MAX_STEPS /\ toolCalls = 0

\* text[:200]
First200(text) == IF Len(text) <= 200 THEN text ELSE SubSeq(text, 1, 200)

ContextLine(r) == "- " \o First200(r.document) \o "...\n"

\* C18: when the first model call is issued the buffer is the system
\* prompt, then, only if the search (at most 3 results of importance at
\* least 0.6) found a match, one system message built from the top 2 matches
\* at most, each cut to 200 characters, then the task as user message.
C18_BufferAtFirstCall ==
    (pc = "step" /\ modelCalls = 0) =>
        LET found == relevant_memories
            context == "Relevant past experiences:\n"
                       \o (IF Len(found) >= 1 THEN ContextLine(found[1]) ELSE "")
                       \o (IF Len(found) >= 2 THEN ContextLine(found[2]) ELSE "")
        IN  /\ Len(found) <= SEARCH_N_RESULTS
            /\ \A i \in 1..Len(found) :
                 /\ \E j \in 1..Len(store) : store[j] = found[i]
                 /\ found[i].metadata["importance"].n >= MIN_IMPORTANCE
            /\ messages = <<Message("system", SYSTEM_PROMPT)>>
                          \o (IF found # <<>> THEN <<Message("system", context)>> ELSE <<>>)
                          \o <<Message("user", task)>>

C18_Witness ==
    /\ pc = "step" /\ modelCalls = 0
    /\ Len(relevant_memories) = SEARCH_N_RESULTS
    /\ Len(relevant_memories[1].document) > 200
    /\ Len(messages) = 3

\* C11: store_memory with empty or whitespace-only content returns the empty
\* id and leaves the store as it was; the total count of the statistics is
\* the same before and after.
C11_BlankContentIsNoOp ==
    (memOutcome.op = "store" /\ memOutcome.content \in {"", "   "}) =>
        /\ memOutcome.id = NO_ID
        /\ memOutcome.after = memOutcome.before
        /\ memOutcome.total_after = memOutcome.total_before

C11_Witness ==
    /\ memOutcome.op = "store" /\ memOutcome.content = "   "
    /\ memOutcome.before # <<>> /\ store = memOutcome.before

\* C12: search_memories with an empty or whitespace-only query returns the
\* empty list, computes no embedding and sends no query to the index.
C12_BlankQueryContactsNothing ==
    (memOutcome.op = "search" /\ memOutcome.query \in {"", "   "}) =>
        /\ memOutcome.result = <<>>
        /\ memOutcome.embedded = 0
        /\ memOutcome.queried = 0

C12_Witness ==
    /\ memOutcome.op = "search" /\ memOutcome.query = "   "
    /\ store # <<>> /\ memOutcome.result = <<>>

LatestFirst(st, memory_type) == SortRecent(st, Filtered(st, memory_type, 0))

\* C14: get_recent_memories(n, type) returns the min(n, M) latest of the M
\* records of the type, latest first, whatever the size of the store.
C14_RecentReturnsLatest ==
    (memOutcome.op = "recent" /\ ~memOutcome.failed) =>
        memOutcome.result = Prefix(LatestFirst(memOutcome.before, memOutcome.memory_type),
                                   memOutcome.n_results)

\* The outcome is that of calculator called with the expression e alone.
CalculatorCalled(e) ==
    /\ toolOutcome.called
    /\ toolOutcome.name = "calculator"
    /\ \/ toolOutcome.arguments = ADict("expression" :> VStr(e))
       \/ /\ toolOutcome.arguments.t = "str"
          /\ toolOutcome.arguments.s \in DOMAIN JsonObjects
          /\ JsonObjects[toolOutcome.arguments.s] = ("expression" :> VStr(e))

\* The result is a failure of the calculator that changed nothing.
Rejected ==
    /\ MetaGet(toolOutcome.result, "ok") = VBool(FALSE)
    /\ MetaGet(toolOutcome.result, "error").t = "str"
    /\ "result" \notin DOMAIN toolOutcome.result
    /\ store = toolOutcome.env.store

CallFailed ==
    \/ toolOutcome.name \notin DOMAIN TOOL_REGISTRY
    \/ BoundaryFailure(toolOutcome) # ""

\* C15 as stated: every result carries a boolean success indicator, false
\* on every failure.
C15_AsStated ==
    toolOutcome.called =>
        /\ "success" \in DOMAIN toolOutcome.result
        /\ toolOutcome.result["success"].t = "bool"
        /\ CallFailed => toolOutcome.result["success"] = VBool(FALSE)

\* C15: every value call_tool returns is a non-empty mapping with a payload
\* or an error text.  A failure of call_tool itself is the error text alone,
\* without a success indicator; the calculator carries a boolean "ok", false
\* exactly when it carries an error text; "success" is carried by
\* store_memory only and is never false.
C15_ResultShapes ==
    toolOutcome.called =>
        LET r == toolOutcome.result
        IN  /\ toolOutcome.raised = ""
            /\ DOMAIN r # {}
            /\ CallFailed => (DOMAIN r = {"error"} /\ r["error"].t = "str")
            /\ "error" \in DOMAIN r =>
                  /\ r["error"].t = "str"
                  /\ "success" \notin DOMAIN r
                  /\ MetaGet(r, "ok") # VBool(TRUE)
            /\ "ok" \in DOMAIN r =>
                  /\ toolOutcome.name = "calculator"
                  /\ r["ok"].t = "bool"
                  /\ (r["ok"] = VBool(FALSE)) <=> ("error" \in DOMAIN r)
            /\ (toolOutcome.name = "calculator" /\ ~CallFailed) => "ok" \in DOMAIN r
            /\ "success" \in DOMAIN r =>
                  /\ toolOutcome.name = "store_memory"
                  /\ r["success"] = VBool(TRUE)

C15_Witness ==
    /\ CalculatorCalled("1/0")
    /\ DOMAIN toolOutcome.result = {"ok", "error"}
    /\ toolOutcome.result["ok"] = VBool(FALSE)

\* The cosine similarity of a and b is 1: above every threshold below 1.
SimilarityIsOne(a, b) ==
    /\ Dot(a, b) > 0
    /\ Dot(a, b) * Dot(a, b) = Dot(a, a) * Dot(b, b)

MEMORY_TYPES == {"conversation", "experience", "fact", "skill"}

\* C22: every record of the store has an importance in [0, 1] and one of
\* the four memory types, whatever the arguments of the calls that stored
\* the records.
C22_RecordsWellFormed ==
    \A i \in 1..Len(store) :
        LET md == store[i].metadata
        IN  /\ MetaGet(md, "importance").t = "num"
            /\ MetaGet(md, "importance").n >= 0
            /\ MetaGet(md, "importance").n <= 100
            /\ MetaGet(md, "memory_type").t = "str"
            /\ MetaGet(md, "memory_type").s \in MEMORY_TYPES

\* The sum of the counts of a memory_types mapping.
RECURSIVE SumCounts(_, _)
SumCounts(counts, types) ==
    IF types = {} THEN 0
    ELSE LET t == CHOOSE x \in types : TRUE
         IN  counts[t] + SumCounts(counts, types \ {t})

\* The importance a record counts with: its number, 0.5 when it has none.
CountedImportance(r) ==
    IF MetaGet(r.metadata, "importance").t = "num" THEN r.metadata["importance"].n
    ELSE DEFAULT_IMPORTANCE

RECURSIVE TotalImportance(_)
TotalImportance(st) ==
    IF st = <<>> THEN 0 ELSE CountedImportance(Head(st)) + TotalImportance(Tail(st))

\* The total is N and the counts by type add up to N.
CountsAddUp(o) ==
    /\ o.stats.total_memories = Len(o.before)
    /\ SumCounts(o.stats.memory_types, DOMAIN o.stats.memory_types) = Len(o.before)
    /\ \A i \in 1..Len(o.before) :
         MetaGet(o.before[i].metadata, "memory_type") \in DOMAIN o.stats.memory_types

\* C23 as stated: the statistics of a store of N records report the total
\* N, counts by type that add up to N, and an average importance equal to
\* the sum of the importances (0.5 for one that is no number) divided by N,
\* 0 for the empty store.
C23_AsStated ==
    (memOutcome.op = "stats" /\ ~memOutcome.failed) =>
        /\ CountsAddUp(memOutcome)
        /\ memOutcome.stats.average_importance * Len(memOutcome.before)
             = TotalImportance(memOutcome.before)

\* C23: as above, with the average rounded to two decimals: it differs from
\* the quotient by at most half a hundredth.
C23_StatsOfStore ==
    (memOutcome.op = "stats" /\ ~memOutcome.failed) =>
        LET N == Len(memOutcome.before)
            avg == memOutcome.stats.average_importance
            total == TotalImportance(memOutcome.before)
        IN  /\ CountsAddUp(memOutcome)
            /\ N = 0 => avg = 0
            /\ N > 0 => /\ 2 * (avg * N - total) <= N
                        /\ 2 * (total - avg * N) <= N

C23_Witness ==
    /\ memOutcome.op = "stats" /\ ~memOutcome.failed
    /\ Len(memOutcome.before) = 3
    /\ DOMAIN memOutcome.stats.memory_types = {VStr("fact"), VStr("experience")}
    /\ \E i \in 1..3 : memOutcome.before[i].metadata["importance"] = VStr("high")
    /\ memOutcome.stats.average_importance = 37

\* The names register was called with.
RegisteredNames(calls) == {calls[i].name : i \in 1..Len(calls)}

\* The tool of the latest register call under the name.
LatestRegistered(calls, name) ==
    calls[CHOOSE i \in 1..Len(calls) :
             calls[i].name = name /\ \A j \in 1..Len(calls) : calls[j].name = name => j <= i]

\* C24: after any sequence of register calls the registry holds one tool
\* for each name registered: all_openai_specs returns one spec for each
\* name, and call_tool runs the handler of the latest registration under the
\* name (an unknown tool for a name never registered).
C24_OneToolPerName ==
    /\ Len(registry) = Cardinality(RegisteredNames(registered))
    /\ Len(all_openai_specs(registry)) = Cardinality(RegisteredNames(registered))
    /\ {all_openai_specs(registry)[i].function.name : i \in 1..Len(registry)}
         = RegisteredNames(registered)
    /\ \A n \in RegisteredNames(registered) :
         \E i \in 1..Len(registry) : registry[i] = LatestRegistered(registered, n)
    /\ (toolOutcome.called /\ "registered" \in DOMAIN toolOutcome) =>
         LET calls == toolOutcome.registered
             name == toolOutcome.name
         IN  IF name \notin RegisteredNames(calls)
             THEN toolOutcome.result = ErrorResult("Unknown tool")
             ELSE toolOutcome.result =
                    call_tool(name :> LatestRegistered(calls, name), name,
                              toolOutcome.arguments, toolOutcome.env).result

C24_Witness ==
    /\ Len(registered) = 3 /\ Len(registry) = 2
    /\ registered[1] = TOOL_REGISTRY["calculator"]
    /\ registered[3].name = "calculator" /\ registered[3].run = "_web_search_run"
    /\ toolOutcome.called /\ toolOutcome.name = "calculator"
    /\ toolOutcome.registered = registered
    /\ "results" \in DOMAIN toolOutcome.result

\* C25: a Memory of limit L never holds more than L entries, and the
\* entries it holds are the latest ones added, in the order they were added.
C25_EntriesWithinLimit ==
    /\ Len(entries) <= limit
    /\ entries = LastK(added, limit)

\* The pair (i, j) of the snapshot recs is above the threshold.
PairAbove(recs, i, j, threshold) ==
    SimilarityAbove(Embedding(recs[i].document), Embedding(recs[j].document), threshold)

\* The position in recs of the record of the id.
PositionOf(recs, id) == CHOOSE k \in 1..Len(recs) : recs[k].id = id

\* C26: consolidate compares a pair only if neither of its records has been
\* marked for removal before: a marked record is not compared again and
\* marks no further record.
C26_MarkedNotComparedAgain ==
    consolidated.called =>
        \A k \in 1..Len(consolidated.trace) :
            LET e == consolidated.trace[k]
            IN  /\ consolidated.before[e.i].id \notin e.marks
                /\ consolidated.before[e.j].id \notin e.marks

C28_RemovedHadBetterPartner ==
    consolidated.called =>
        LET recs == consolidated.before
            kept == {consolidated.after[k].id : k \in 1..Len(consolidated.after)}
        IN  /\ \A k \in 1..Len(consolidated.trace) :
                 LET e == consolidated.trace[k]
                 IN  e.marked # NO_ID =>
                        LET partner == IF e.marked = recs[e.i].id THEN e.j ELSE e.i
                        IN  /\ e.marked \in {recs[e.i].id, recs[e.j].id}
                            /\ PairAbove(recs, e.i, e.j, consolidated.threshold)
                            /\ CountedImportance(recs[partner])
                                 >= CountedImportance(recs[PositionOf(recs, e.marked)])
            /\ \A a \in 1..Len(recs) :
                 recs[a].id \notin kept =>
                    \E k \in 1..Len(consolidated.trace) : consolidated.trace[k].marked = recs[a].id
            /\ \A a \in 1..Len(recs) :
                 (\A b \in 1..Len(recs) :
                     b # a => CountedImportance(recs[a]) > CountedImportance(recs[b]))
                 => recs[a].id \in kept

C28_Witness ==
    /\ consolidated.called /\ ~consolidated.failed
    /\ Len(consolidated.before) = 3
    /\ consolidated.before[1].metadata["importance"] = VNum(30)
    /\ consolidated.before[2].metadata["importance"] = VStr("high")
    /\ consolidated.before[3].metadata["importance"] = VNum(90)
    /\ consolidated.removed = 2
    /\ consolidated.after = <<consolidated.before[3]>>

\* C29: the value consolidate returns is the number of records it removed:
\* the store holds that many records fewer, the others unchanged; it is 0 and
\* the store is unchanged when the store holds fewer than two records, when
\* no pair is above the threshold, and when the backing store fails.
C29_ReturnsNumberRemoved ==
    consolidated.called =>
        LET recs == consolidated.before
        IN  /\ Len(consolidated.after) = Len(recs) - consolidated.removed
            /\ \E gone \in SUBSET {recs[k].id : k \in 1..Len(recs)} :
                 /\ Cardinality(gone) = consolidated.removed
                 /\ consolidated.after = SelectSeq(recs, LAMBDA r : r.id \notin gone)
            /\ (\/ Len(recs) < 2
                \/ consolidated.failed
                \/ \A a, b \in 1..Len(recs) :
                     a < b => ~PairAbove(recs, a, b, consolidated.threshold))
               => (consolidated.removed = 0 /\ consolidated.after = recs)

C29_Witness ==
    /\ consolidated.called /\ ~consolidated.failed
    /\ Len(consolidated.before) = 3
    /\ \A k \in 1..3 : consolidated.before[k].metadata["importance"] = VNum(30)
    /\ consolidated.removed = 2
    /\ Len(consolidated.after) = 1

\* C30: consolidate called again with the same threshold right after a call
\* that did not fail, the store untouched in between, removes nothing and
\* returns 0.
C30_SecondRunRemovesNothing ==
    (consolidated.called /\ consolidated.again) =>
        consolidated.removed = 0 /\ consolidated.after = consolidated.before

C30_Witness ==
    /\ consolidated.called /\ consolidated.again /\ ~consolidated.failed
    /\ consolidated.prev_removed = 1
    /\ Len(consolidated.before) = 2
    /\ consolidated.removed = 0

(***************************************************************************)
(* C31: consolidate_memories beside concurrent store_memory calls.         *)
(***************************************************************************)
IdsOf(recs) == {recs[k].id : k \in 1..Len(recs)}

\* C31: however a consolidate_memories call is interleaved with store calls,
\* the records its delete removes all have ids of the snapshot it read at its
\* start, so that every record stored after the snapshot is still in the
\* collection after the delete.
C31_DeletesOnlySnapshotIds ==
    consolidating.finished =>
        /\ IdsOf(consolidating.before) \ IdsOf(consolidating.after)
               \subseteq IdsOf(consolidating.results) \cap consolidating.to_delete
        /\ \A k \in 1..Len(consolidating.before) :
               consolidating.before[k].id \notin IdsOf(consolidating.results) =>
                   \E m \in 1..Len(consolidating.after) :
                       consolidating.after[m] = consolidating.before[k]

\* A consolidation whose snapshot ended with the record just stored, a
\* duplicate of lower importance, which the delete removed, while a third
\* duplicate stored between the snapshot and the delete stayed.
C31_Witness ==
    /\ consolidating.finished
    /\ Len(consolidating.results) = 2
    /\ consolidating.to_delete = {consolidating.results[2].id}
    /\ Len(consolidating.before) = 3
    /\ consolidating.before[3].document = consolidating.results[2].document
    /\ consolidating.after = <<consolidating.before[1], consolidating.before[3]>>

(***************************************************************************)
(* C32: the reserved metadata keys of a stored record.                     *)
(***************************************************************************)
\* C32: after a successful store_memory(content, memory_type, metadata,
\* importance) the record persisted carries the call's memory_type, the call
\* time as timestamp and the call's importance, whatever keys the metadata
\* of the caller has.
C32_ReservedKeysKeepArguments ==
    (memOutcome.op = "store_metadata" /\ memOutcome.id # NO_ID) =>
        LET rec == memOutcome.after[Len(memOutcome.after)]
        IN  /\ rec.id = memOutcome.id
            /\ rec.metadata["memory_type"] = memOutcome.memory_type
            /\ rec.metadata["timestamp"] = VNum(memOutcome.time)
            /\ rec.metadata["importance"] = memOutcome.importance

(***************************************************************************)
(* C33: what the store_memory tool reports.                                *)
(***************************************************************************)
\* C33: the store_memory tool reports success only when a record was
\* persisted: a result with success true has a non-empty memory_id, which is
\* the id of a record the call added to the collection.
C33_SuccessMeansPersisted ==
    (/\ toolOutcome.called
     /\ toolOutcome.name = "store_memory"
     /\ "success" \in DOMAIN toolOutcome.result
     /\ toolOutcome.result["success"] = VBool(TRUE)) =>
        /\ toolOutcome.result["memory_id"] # VNum(NO_ID)
        /\ Len(store) = Len(toolOutcome.env.store) + 1
        /\ store[Len(store)].id = toolOutcome.result["memory_id"].n

(***************************************************************************)
(* C34: the matches of search_memories.                                    *)
(***************************************************************************)
\* importance >= min_importance, which only a number satisfies.
ImportanceAtLeast(importance, min_importance) ==
    importance.t = "num" /\ importance.n >= min_importance

\* The similarities, the number and the order of the matches, and the type
\* filter.
MatchesScoredAndTyped ==
    /\ Len(memOutcome.matches) <= memOutcome.n_results
    /\ \A j \in 1..Len(memOutcome.matches) :
         LET m == memOutcome.matches[j]
         IN  /\ m.similarity \in 0..100
             /\ m.similarity = Max(0, 100 - memOutcome.distances[j])
             /\ \E k \in 1..Len(store) : store[k].id = m.id /\ store[k].document = m.content
             /\ \A i \in 1..(j - 1) : memOutcome.distances[i] <= memOutcome.distances[j]
             /\ Truthy(memOutcome.memory_type) => m.memory_type = memOutcome.memory_type

\* C34: every match search_memories returns has a similarity in [0, 1] equal
\* to max(0, 1 - distance); there are at most n_results matches, closest
\* first; every match has the memory_type asked for and an importance >=
\* min_importance.
C34_MatchesScoredAndFiltered ==
    memOutcome.op = "scored_search" =>
        /\ MatchesScoredAndTyped
        /\ \A j \in 1..Len(memOutcome.matches) :
               ImportanceAtLeast(memOutcome.matches[j].importance, memOutcome.min_importance)

(***************************************************************************)
(* C35: Memory.get_recent_entries.                                         *)
(***************************************************************************)
\* C35: get_recent_entries(count), for every count >= 0, returns at most
\* count entries: the last count entries in insertion order, all of them
\* when fewer are held; the entries of the Memory are as before.
C35_RecentEntriesAtMostCount ==
    memOutcome.op = "recent_entries" =>
        /\ Len(memOutcome.result) <= memOutcome.count
        /\ memOutcome.result = LastK(memOutcome.before, memOutcome.count)
        /\ memOutcome.after = memOutcome.before

(***************************************************************************)
(* C36: the embedding strategy get_memory_stats names.                     *)
(***************************************************************************)
\* C36: the strategy get_memory_stats names is the one that made the
\* embedding _generate_embedding returned just before: the trained model
\* when the embedding came from it, the fallback when the embedding is the
\* hash-derived one.
C36_StatsNameActiveStrategy ==
    (memOutcome.op = "stats" /\ ~memOutcome.failed /\ memOutcome.last_embedding # "none") =>
        memOutcome.stats.embedding_model =
            (IF memOutcome.last_embedding = "fallback" THEN "Simple" ELSE "SentenceTransformer")

(***************************************************************************)
(* C37: the shape of a fallback embedding.                                 *)
(***************************************************************************)
\* The number of components simple_embedding(text, dim) takes from the
\* digest: four for each of the first dim // 8 bytes.
HashDerived(text, dim) == 4 * Min(Len(Sha256Digest(text)), dim \div 8)

\* C37: simple_embedding(text, dim), for every dim >= 0, returns a vector of
\* exactly dim components, all in [-1, 1) (-128..127 in 128ths): first the
\* components derived from the bytes of the digest, each byte shifted right
\* by 0 to 3 bits, then zeros.
C37_EmbeddingShape ==
    memOutcome.op = "simple_embedding" =>
        LET v == memOutcome.vector
            h == HashDerived(memOutcome.text, memOutcome.dim)
        IN  /\ Len(v) = memOutcome.dim
            /\ \A k \in 1..Len(v) : v[k] \in -128..127
            /\ h <= memOutcome.dim
            /\ \A k \in 1..Len(v) :
                   IF k <= h
                   THEN LET b == Sha256Digest(memOutcome.text)[((k - 1) \div 4) + 1]
                            shift == (k - 1) % 4
                        IN  v[k] = ((b \div (2 ^ shift)) % 256) - 128
                   ELSE v[k] = 0

\* An embedding of dimension 17: the eight components of two bytes of the
\* digest, not all zero, then nine zeros.
C37_Witness ==
    /\ memOutcome.op = "simple_embedding"
    /\ memOutcome.dim = 17
    /\ HashDerived(memOutcome.text, memOutcome.dim) = 8
    /\ Len(memOutcome.vector) = 17
    /\ memOutcome.vector[1] # 0
    /\ \A k \in 9..17 : memOutcome.vector[k] = 0

====
